---------------------------- MODULE Spec2Model ----------------------------
(***************************************************************************)
(* Currency / crypto converter bot: the rate-resolution engine             *)
(* (extensions.py: CryptoConverter), its vocabulary (config.py) and the    *)
(* callers in main.py.                                                     *)
(*                                                                         *)
(* Text.  A Python str is a sequence of characters; a character is a       *)
(* one-letter string.  The module text is ASCII, so a Cyrillic letter is   *)
(* written as "~" followed by one Latin letter, one token per letter,      *)
(* upper case for upper case:                                              *)
(*   a=а b=б v=в g=г d=д e=е z=з i=и j=й k=к l=л m=м n=н o=о p=п r=р s=с   *)
(*   t=т u=у f=ф h=э y=ю q=я x=ь                                           *)
(* so Cyr("Dollar") is Доллар and Cyr("rublx") is рубль.  Latin text is    *)
(* Lat("usd").                                                             *)
(*                                                                         *)
(* Numbers.  A Python float is modelled by an exact rational <<n, d>> in   *)
(* lowest terms with d > 0: rounding is not modelled.                      *)
(***************************************************************************)
EXTENDS Integers, Sequences, FiniteSets, TLC

VARIABLES RATE_CACHE, now, last, calls, ticks, resolved, threads, writes,
          user_states, dicts, handled

vars == <<RATE_CACHE, now, last, calls, ticks, resolved, threads, writes,
          user_states, dicts, handled>>

\* Python's None, comparable with every text and every number of the model.
None == <<"None">>

\* the element of a one-element set: { e : x \in {v} } names the value v as
\* x in e, computed once
The(S) == CHOOSE x \in S : TRUE

-----------------------------------------------------------------------------
(* Text *)

LatinLower == "abcdefghijklmnopqrstuvwxyz"
LatinUpper == "ABCDEFGHIJKLMNOPQRSTUVWXYZ"

Lat(s) == [i \in 1..Len(s) |-> SubSeq(s, i, i)]

Cyr(s) == [i \in 1..Len(s) |->
             IF SubSeq(s, i, i) = " " THEN " " ELSE "~" \o SubSeq(s, i, i)]

LowerSet == {SubSeq(LatinLower, i, i) : i \in 1..26}
UpperSet == {SubSeq(LatinUpper, i, i) : i \in 1..26}
CyrLowerSet == {"~" \o c : c \in LowerSet}
CyrUpperSet == {"~" \o c : c \in UpperSet}
Letters == LowerSet \cup UpperSet \cup CyrLowerSet \cup CyrUpperSet
Digits == {"0", "1", "2", "3", "4", "5", "6", "7", "8", "9"}

LatinLowerOf == [c \in UpperSet |->
                   LET i == CHOOSE k \in 1..26 : SubSeq(LatinUpper, k, k) = c
                   IN  SubSeq(LatinLower, i, i)]
LatinUpperOf == [c \in LowerSet |->
                   LET i == CHOOSE k \in 1..26 : SubSeq(LatinLower, k, k) = c
                   IN  SubSeq(LatinUpper, i, i)]

\* str.lower(), one character
LowerChar(c) ==
    IF c \in UpperSet THEN LatinLowerOf[c]
    ELSE IF c \in CyrUpperSet THEN "~" \o LatinLowerOf[SubSeq(c, 2, 2)]
    ELSE c

\* str.upper(), one character
UpperChar(c) ==
    IF c \in LowerSet THEN LatinUpperOf[c]
    ELSE IF c \in CyrLowerSet THEN "~" \o LatinUpperOf[SubSeq(c, 2, 2)]
    ELSE c

Lower(s) == [i \in 1..Len(s) |-> LowerChar(s[i])]
Upper(s) == [i \in 1..Len(s) |-> UpperChar(s[i])]

Whitespace == {" ", "\t", "\n", "\r"}

RECURSIVE LStrip(_)
LStrip(s) == IF s # <<>> /\ Head(s) \in Whitespace THEN LStrip(Tail(s)) ELSE s

RECURSIVE RStrip(_)
RStrip(s) == IF s # <<>> /\ s[Len(s)] \in Whitespace
             THEN RStrip(SubSeq(s, 1, Len(s) - 1)) ELSE s

\* str.strip()
Strip(s) == RStrip(LStrip(s))

\* key in name
Contains(name, key) ==
    \E i \in 1..(Len(name) - Len(key) + 1) :
        SubSeq(name, i, i + Len(key) - 1) = key

-----------------------------------------------------------------------------
(* config.py: the vocabulary, in the dict's insertion order *)

CURRENCIES == <<
    <<Cyr("Dollar"), Lat("USD")>>,
    <<Cyr("Evro"), Lat("EUR")>>,
    <<Cyr("Rublx"), Lat("RUB")>>,
    <<Cyr("Yanx"), Lat("CNY")>>,
    <<Cyr("Belorusskij rublx"), Lat("BYN")>>,
    <<Cyr("Indijskaq rupiq"), Lat("INR")>>,
    <<Cyr("Bitkoin"), Lat("BTC")>>,
    <<Cyr("Hfirium"), Lat("ETH")>>,
    <<Cyr("Lajtkoin"), Lat("LTC")>>,
    <<Cyr("Tezer"), Lat("USDT")>>,
    <<Cyr("Binans"), Lat("BNB")>>,
    <<Cyr("Ripl"), Lat("XRP")>>,
    <<Cyr("Dogikoin"), Lat("DOGE")>>
>>

CanonicalNames == {CURRENCIES[i][1] : i \in 1..Len(CURRENCIES)}

\* Config.CURRENCIES[name]; a missing key is Python's KeyError
CodeOf(name) ==
    IF name \in CanonicalNames
    THEN CURRENCIES[CHOOSE i \in 1..Len(CURRENCIES) : CURRENCIES[i][1] = name][2]
    ELSE <<"KeyError">>

\* normalize_currency_name's currency_map, in the dict's insertion order
currency_map == <<
    <<Cyr("dollar"), Cyr("Dollar")>>,
    <<Cyr("evro"), Cyr("Evro")>>,
    <<Cyr("rublx"), Cyr("Rublx")>>,
    <<Cyr("yanx"), Cyr("Yanx")>>,
    <<Cyr("belorusskij rublx"), Cyr("Belorusskij rublx")>>,
    <<Cyr("indijskaq rupiq"), Cyr("Indijskaq rupiq")>>,
    <<Cyr("bitkoin"), Cyr("Bitkoin")>>,
    <<Cyr("hfirium"), Cyr("Hfirium")>>,
    <<Cyr("lajtkoin"), Cyr("Lajtkoin")>>,
    <<Cyr("tezer"), Cyr("Tezer")>>,
    <<Cyr("ripl"), Cyr("Ripl")>>,
    <<Cyr("dogikoin"), Cyr("Dogikoin")>>,
    <<Cyr("binans"), Cyr("Binans")>>,
    <<Lat("usd"), Cyr("Dollar")>>,
    <<Lat("eur"), Cyr("Evro")>>,
    <<Lat("rub"), Cyr("Rublx")>>,
    <<Lat("cny"), Cyr("Yanx")>>,
    <<Lat("byn"), Cyr("Belorusskij rublx")>>,
    <<Lat("inr"), Cyr("Indijskaq rupiq")>>,
    <<Lat("btc"), Cyr("Bitkoin")>>,
    <<Lat("eth"), Cyr("Hfirium")>>,
    <<Lat("ltc"), Cyr("Lajtkoin")>>,
    <<Lat("usdt"), Cyr("Tezer")>>,
    <<Lat("xrp"), Cyr("Ripl")>>,
    <<Lat("doge"), Cyr("Dogikoin")>>,
    <<Lat("bnb"), Cyr("Binans")>>,
    <<Cyr("baks"), Cyr("Dollar")>>,
    <<Cyr("baki"), Cyr("Dollar")>>,
    <<Cyr("bitok"), Cyr("Bitkoin")>>,
    <<Cyr("hfir"), Cyr("Hfirium")>>,
    <<Cyr("lajt"), Cyr("Lajtkoin")>>,
    <<Cyr("dogi"), Cyr("Dogikoin")>>
>>

\* the exact-match step: `if name in currency_map: return currency_map[name]`
RECURSIVE ExactFrom(_, _)
ExactFrom(name, i) ==
    IF i > Len(currency_map) THEN None
    ELSE IF currency_map[i][1] = name THEN currency_map[i][2]
    ELSE ExactFrom(name, i + 1)

ExactMatch(name) == ExactFrom(name, 1)

\* the partial-match step giving the key it found, not the key's value
RECURSIVE PartialFrom_Key(_, _)
PartialFrom_Key(name, i) ==
    IF i > Len(currency_map) THEN None
    ELSE IF Contains(name, currency_map[i][1]) THEN currency_map[i][1]
    ELSE PartialFrom_Key(name, i + 1)

\* the partial-match step: the first key, in dict order, that is a substring
RECURSIVE PartialFrom(_, _)
PartialFrom(name, i) ==
    IF i > Len(currency_map) THEN None
    ELSE IF Contains(name, currency_map[i][1]) THEN currency_map[i][2]
    ELSE PartialFrom(name, i + 1)

PartialMatch(name) == PartialFrom(name, 1)

\* the last step: a canonical name of Config.CURRENCIES whose lower() is name
RECURSIVE ConfigFrom(_, _)
ConfigFrom(name, i) ==
    IF i > Len(CURRENCIES) THEN None
    ELSE IF Lower(CURRENCIES[i][1]) = name THEN CURRENCIES[i][1]
    ELSE ConfigFrom(name, i + 1)

ConfigMatch(name) == ConfigFrom(name, 1)

\* normalize_currency_name without the substring search
normalize_currency_name_ExactOnly(raw) ==
    IF raw = None \/ raw = <<>> THEN None
    ELSE The({IF ExactMatch(name) # None THEN ExactMatch(name)
              ELSE ConfigMatch(name) : name \in {Lower(Strip(raw))}})

\* normalize_currency_name with the substring search ahead of the exact match
normalize_currency_name_PartialFirst(raw) ==
    IF raw = None \/ raw = <<>> THEN None
    ELSE The({IF PartialMatch(name) # None THEN PartialMatch(name)
              ELSE IF ExactMatch(name) # None THEN ExactMatch(name)
              ELSE ConfigMatch(name) : name \in {Lower(Strip(raw))}})

normalize_currency_name(raw) ==
    IF raw = None \/ raw = <<>> THEN None
    ELSE The({IF ExactMatch(name) # None THEN ExactMatch(name)
              ELSE IF PartialMatch(name) # None THEN PartialMatch(name)
              ELSE ConfigMatch(name) : name \in {Lower(Strip(raw))}})

-----------------------------------------------------------------------------
(* Numbers: exact rationals <<n, d>>, d > 0, lowest terms *)

Abs(x) == IF x < 0 THEN -x ELSE x

RECURSIVE GCD(_, _)
GCD(a, b) == IF b = 0 THEN a ELSE GCD(b, a % b)

\* n / d for d # 0
Rat(n, d) ==
    LET g == GCD(Abs(n), Abs(d))
        s == IF d < 0 THEN -1 ELSE 1
    IN  <<(s * n) \div g, (s * d) \div g>>

Num(n) == <<n, 1>>

IsZero(a) == a[1] = 0

RMul(a, b) ==
    LET g1 == GCD(Abs(a[1]), b[2])
        g2 == GCD(Abs(b[1]), a[2])
    IN  <<(a[1] \div g1) * (b[1] \div g2), (a[2] \div g2) * (b[2] \div g1)>>

\* a / b for b # 0 (b = 0 is Python's ZeroDivisionError, decided by the caller)
RDiv(a, b) == RMul(a, Rat(b[2], b[1]))

RAdd(a, b) == Rat(a[1] * b[2] + b[1] * a[2], a[2] * b[2])

RSub(a, b) == RAdd(a, <<-b[1], b[2]>>)

\* 1 + commission/100
CommissionFactor(commission) == RAdd(Num(1), RDiv(commission, Num(100)))

-----------------------------------------------------------------------------
(* The upstream providers.  A request is answered by one response          *)
(* <<status, json, data>>: the HTTP status, whether the body parses as     *)
(* JSON, and the parsed body (query: what the request asked for).  What a  *)
(* response holds is the environment's                                     *)
(* choice: its prices come from a market, and its shape says what the body *)
(* carries.                                                                *)
(*   ok             200, every requested item                              *)
(*   http_err       non-200, an error body without data                    *)
(*   http_err_data  non-200, yet the body carries the data                 *)
(*   no_json        200, a body that does not parse                        *)
(*   partial        200, the asset without the requested quote (crypto);   *)
(*                  a snapshot with the USD rate only (fiat)               *)
(*   empty          200, no asset (crypto); no rates (fiat)                *)
(*   zero           200, every price or rate 0                             *)
(*   no_ts          200, a snapshot without its timestamp (fiat)           *)

Shapes == {"ok", "http_err", "http_err_data", "no_json", "partial", "empty",
           "zero", "no_ts"}

\* Config.COINGECKO_API_URL's asset identifiers (COINGECKO_IDS)
COINGECKO_IDS ==
    (Lat("btc") :> "bitcoin") @@ (Lat("eth") :> "ethereum") @@
    (Lat("ltc") :> "litecoin") @@ (Lat("usdt") :> "tether") @@
    (Lat("bnb") :> "binancecoin") @@ (Lat("xrp") :> "ripple") @@
    (Lat("doge") :> "dogecoin") @@ (Lat("ada") :> "cardano") @@
    (Lat("dot") :> "polkadot") @@ (Lat("sol") :> "solana")

FiatRates(usd, eur, rub, cny, byn, inr) ==
    (Lat("USD") :> usd) @@ (Lat("EUR") :> eur) @@ (Lat("RUB") :> rub) @@
    (Lat("CNY") :> cny) @@ (Lat("BYN") :> byn) @@ (Lat("INR") :> inr)

\* USD prices of the crypto assets, rates per USD of the fiat tickers, and the
\* age of the fiat snapshot
Markets == <<
    [usd |-> [bitcoin |-> Num(50000), ethereum |-> Num(2500), litecoin |-> Num(80),
              tether |-> Num(1), binancecoin |-> Num(600), ripple |-> Rat(1, 2),
              dogecoin |-> Rat(1, 10), cardano |-> Rat(1, 4), polkadot |-> Num(5),
              solana |-> Num(150)],
     rates |-> FiatRates(Num(1), Rat(10, 11), Num(90), Num(7), Num(3), Num(80)),
     age |-> 60],
    [usd |-> [bitcoin |-> Num(60000), ethereum |-> Num(2000), litecoin |-> Num(100),
              tether |-> Num(1), binancecoin |-> Num(500), ripple |-> Rat(3, 5),
              dogecoin |-> Rat(1, 5), cardano |-> Rat(1, 2), polkadot |-> Num(4),
              solana |-> Num(200)],
     rates |-> FiatRates(Num(1), Rat(4, 5), Num(100), Num(8), Num(4), Num(90)),
     age |-> 1800]
>>

\* the crypto provider: GET /simple/price?ids=<ids>&vs_currencies=<vs>
CoinGecko(mk, ids, vs, shape) ==
    The({[query |-> <<ids, vs>>,
          status |-> IF shape \in {"http_err", "http_err_data"} THEN 500 ELSE 200,
          json |-> shape # "no_json",
          data |-> [id \in (IF shape \in {"http_err", "empty", "no_json"}
                            THEN {} ELSE ids) |->
                      [v \in (IF shape # "partial"
                                  /\ (vs = Lat("usd") \/ Upper(vs) \in DOMAIN m.rates)
                              THEN {vs} ELSE {}) |->
                          IF shape = "zero" THEN Num(0)
                          ELSE IF vs = Lat("usd") THEN m.usd[id]
                          ELSE RMul(m.usd[id], m.rates[Upper(vs)])]]]
         : m \in {Markets[mk]}})

\* the fiat provider: GET /api/latest.json?app_id=<key>
OpenExchangeRates(mk, t, shape) ==
    The({[query |-> <<>>,
          status |-> IF shape \in {"http_err", "http_err_data"} THEN 401 ELSE 200,
          json |-> shape # "no_json",
          data |-> [f \in (CASE shape \in {"http_err", "empty", "no_json"} -> {}
                             [] shape = "no_ts" -> {"rates"}
                             [] OTHER -> {"rates", "timestamp"}) |->
                      IF f = "rates"
                      THEN [c \in (IF shape = "partial" THEN {Lat("USD")}
                                   ELSE DOMAIN m.rates) |->
                              IF shape = "zero" THEN Num(0) ELSE m.rates[c]]
                      ELSE t - m.age]]
         : m \in {Markets[mk]}})

-----------------------------------------------------------------------------
(* extensions.py: CryptoConverter.  Each method is an operator returning   *)
(* what the call did: exc = "" and (result, ts) when it returned, or the   *)
(* exception it raised (exc: the Python type; for an APIException, kind:   *)
(* the error kind of its message, cause: the exception it wraps), and      *)
(* reqs: the upstream requests it issued, in order.                        *)

CACHE_DURATION == 3600

Returned(result, ts, reqs) ==
    [exc |-> "", kind |-> "", cause |-> "", result |-> result, ts |-> ts,
     reqs |-> reqs]

Raised(exc, kind, cause, reqs) ==
    [exc |-> exc, kind |-> kind, cause |-> cause, result |-> None, ts |-> None,
     reqs |-> reqs]

\* a request as the provider saw it: the ids and vs_currencies asked for (none
\* for the snapshot), and the status it answered with
Request(api, response) ==
    [api |-> api, query |-> response.query, status |-> response.status]

CacheKey(base, quote) == base \o <<"_">> \o quote

\* get_cached_rate with the entry still fresh at exactly CACHE_DURATION
get_cached_rate_Inclusive(cache, t, base, quote) ==
    LET key == CacheKey(base, quote)
    IN  IF key \in DOMAIN cache /\ (t - cache[key][2]) <= CACHE_DURATION
        THEN <<cache[key][1], cache[key][2]>>
        ELSE <<None, None>>

\* get_cached_rate that falls back on the entry of the reversed pair
get_cached_rate_EitherOrder(cache, t, base, quote) ==
    LET key == CacheKey(base, quote)
        rev == CacheKey(quote, base)
    IN  IF key \in DOMAIN cache /\ (t - cache[key][2]) < CACHE_DURATION
        THEN <<cache[key][1], cache[key][2]>>
        ELSE IF rev \in DOMAIN cache /\ (t - cache[rev][2]) < CACHE_DURATION
        THEN <<cache[rev][1], cache[rev][2]>>
        ELSE <<None, None>>

\* <<rate, ts>> of a fresh entry, else <<None, None>>
get_cached_rate(cache, t, base, quote) ==
    LET key == CacheKey(base, quote)
    IN  IF key \in DOMAIN cache /\ (t - cache[key][2]) < CACHE_DURATION
        THEN <<cache[key][1], cache[key][2]>>
        ELSE <<None, None>>

\* cache_rate writing the entry of the reversed pair
cache_rate_Reversed(cache, t, base, quote, rate) ==
    LET key == CacheKey(quote, base)
    IN  [k \in DOMAIN cache \cup {key} |-> IF k = key THEN <<rate, t>> ELSE cache[k]]

\* cache_rate that keeps the entry it writes and no other
cache_rate_Evicting(cache, t, base, quote, rate) ==
    [k \in {CacheKey(base, quote)} |-> <<rate, t>>]

\* cache_rate that leaves an entry already present as it is
cache_rate_KeepFirst(cache, t, base, quote, rate) ==
    LET key == CacheKey(base, quote)
    IN  [k \in DOMAIN cache \cup {key} |->
            IF k \in DOMAIN cache THEN cache[k] ELSE <<rate, t>>]

\* RATE_CACHE[key] = (rate, time.time())
cache_rate(cache, t, base, quote, rate) ==
    LET key == CacheKey(base, quote)
    IN  [k \in DOMAIN cache \cup {key} |-> IF k = key THEN <<rate, t>> ELSE cache[k]]

\* dict.get(key): None when the key is missing
Get(d, key) == IF key \in DOMAIN d THEN d[key] ELSE None

\* Python's `not x` for a price: None and 0 are falsy
Falsy(x) == x = None \/ IsZero(x)

\* result = (amount * base_usd) / quote_usd
ViaUsdPrices(amount, base_usd, quote_usd) == RDiv(RMul(amount, base_usd), quote_usd)

convert_crypto_to_crypto(base_code, quote_code, amount, commission, mk, t, script) ==
    IF base_code \notin DOMAIN COINGECKO_IDS \/ quote_code \notin DOMAIN COINGECKO_IDS
    THEN Raised("APIException", "UpstreamUnavailable", "unsupported", <<>>)
    ELSE The({
        IF response.status # 200
        THEN Raised("APIException", "UpstreamUnavailable", "status",
                    <<Request("coingecko", response)>>)
        ELSE IF ~response.json
        THEN Raised("ValueError", "", "", <<Request("coingecko", response)>>)
        ELSE IF base_id \in DOMAIN response.data /\ quote_id \in DOMAIN response.data
        THEN The({
            IF Falsy(base_usd) \/ Falsy(quote_usd)
            THEN Raised("APIException", "UpstreamUnavailable", "price",
                        <<Request("coingecko", response)>>)
            ELSE Returned(RMul(ViaUsdPrices(amount, base_usd, quote_usd),
                               CommissionFactor(commission)),
                          t, <<Request("coingecko", response)>>)
            : base_usd \in {Get(response.data[base_id], Lat("usd"))},
              quote_usd \in {Get(response.data[quote_id], Lat("usd"))}})
        ELSE Raised("APIException", "UpstreamUnavailable", "missing",
                    <<Request("coingecko", response)>>)
        : base_id \in {COINGECKO_IDS[base_code]},
          quote_id \in {COINGECKO_IDS[quote_code]},
          response \in {CoinGecko(mk, {COINGECKO_IDS[base_code],
                                       COINGECKO_IDS[quote_code]},
                                  Lat("usd"), script[1])}})

\* one leg of convert_via_usd: the USD value of `code` (base leg), or the
\* units of `code` per USD (quote leg)
ViaUsdLeg(code, quoteLeg, mk, t, shape) ==
    IF code \in DOMAIN COINGECKO_IDS
    THEN The({
        IF ~response.json
        THEN [exc |-> "ValueError", value |-> None, ts |-> None,
              req |-> Request("coingecko", response)]
        ELSE IF id \notin DOMAIN response.data
                  \/ Lat("usd") \notin DOMAIN response.data[id]
        THEN [exc |-> "KeyError", value |-> None, ts |-> None,
              req |-> Request("coingecko", response)]
        ELSE IF quoteLeg /\ IsZero(response.data[id][Lat("usd")])
        THEN [exc |-> "ZeroDivisionError", value |-> None, ts |-> None,
              req |-> Request("coingecko", response)]
        ELSE [exc |-> "",
              value |-> IF quoteLeg THEN RDiv(Num(1), response.data[id][Lat("usd")])
                        ELSE response.data[id][Lat("usd")],
              ts |-> t, req |-> Request("coingecko", response)]
        : id \in {COINGECKO_IDS[code]},
          response \in {CoinGecko(mk, {COINGECKO_IDS[code]}, Lat("usd"), shape)}})
    ELSE The({
        IF ~response.json
        THEN [exc |-> "ValueError", value |-> None, ts |-> None,
              req |-> Request("openexchangerates", response)]
        ELSE IF "rates" \notin DOMAIN response.data
                  \/ "timestamp" \notin DOMAIN response.data
        THEN [exc |-> "KeyError", value |-> None, ts |-> None,
              req |-> Request("openexchangerates", response)]
        ELSE [exc |-> "",
              value |-> IF Upper(code) \in DOMAIN response.data["rates"]
                        THEN response.data["rates"][Upper(code)] ELSE Num(1),
              ts |-> response.data["timestamp"],
              req |-> Request("openexchangerates", response)]
        : response \in {OpenExchangeRates(mk, t, shape)}})

Max(a, b) == IF a >= b THEN a ELSE b

convert_via_usd(base_code, quote_code, amount, commission, mk, t, script) ==
    The({
        IF leg1.exc # ""
        THEN Raised("APIException", "ConversionFailed", leg1.exc, <<leg1.req>>)
        ELSE IF leg2.exc # ""
        THEN Raised("APIException", "ConversionFailed", leg2.exc, <<leg1.req, leg2.req>>)
        ELSE Returned(RMul(RMul(RMul(amount, leg1.value), leg2.value),
                           CommissionFactor(commission)),
                      Max(leg1.ts, leg2.ts), <<leg1.req, leg2.req>>)
        : leg1 \in {ViaUsdLeg(base_code, FALSE, mk, t, script[1])},
          leg2 \in {ViaUsdLeg(quote_code, TRUE, mk, t, script[2])}})

\* convert_crypto_to_fiat that fails when the direct quote is missing
convert_crypto_to_fiat_NoFallback(base_code, quote_code, amount, commission, mk, t, script) ==
    LET crypto_to_fiat == base_code \in DOMAIN COINGECKO_IDS
        crypto_code == IF crypto_to_fiat THEN base_code ELSE quote_code
        fiat_code == IF crypto_to_fiat THEN quote_code ELSE base_code
    IN  IF crypto_code \notin DOMAIN COINGECKO_IDS
        THEN Raised("APIException", "UpstreamUnavailable", "unsupported", <<>>)
        ELSE The({
            IF response.status # 200
            THEN Raised("APIException", "UpstreamUnavailable", "status",
                        <<Request("coingecko", response)>>)
            ELSE IF ~response.json
            THEN Raised("ValueError", "", "", <<Request("coingecko", response)>>)
            ELSE IF crypto_id \in DOMAIN response.data
                      /\ fiat_code \in DOMAIN response.data[crypto_id]
            THEN The({
                IF ~crypto_to_fiat /\ IsZero(rate)
                THEN Raised("ZeroDivisionError", "", "",
                            <<Request("coingecko", response)>>)
                ELSE Returned(RMul(IF crypto_to_fiat THEN RMul(amount, rate)
                                   ELSE RDiv(amount, rate),
                                   CommissionFactor(commission)),
                              t, <<Request("coingecko", response)>>)
                : rate \in {response.data[crypto_id][fiat_code]}})
            ELSE Raised("APIException", "UpstreamUnavailable", "missing",
                        <<Request("coingecko", response)>>)
            : crypto_id \in {COINGECKO_IDS[crypto_code]},
              response \in {CoinGecko(mk, {COINGECKO_IDS[crypto_code]}, fiat_code,
                                      script[1])}})

convert_crypto_to_fiat(base_code, quote_code, amount, commission, mk, t, script) ==
    LET crypto_to_fiat == base_code \in DOMAIN COINGECKO_IDS
        crypto_code == IF crypto_to_fiat THEN base_code ELSE quote_code
        fiat_code == IF crypto_to_fiat THEN quote_code ELSE base_code
    IN  IF crypto_code \notin DOMAIN COINGECKO_IDS
        THEN Raised("APIException", "UpstreamUnavailable", "unsupported", <<>>)
        ELSE The({
            IF response.status # 200
            THEN Raised("APIException", "UpstreamUnavailable", "status",
                        <<Request("coingecko", response)>>)
            ELSE IF ~response.json
            THEN Raised("ValueError", "", "", <<Request("coingecko", response)>>)
            ELSE IF crypto_id \in DOMAIN response.data
                      /\ fiat_code \in DOMAIN response.data[crypto_id]
            THEN The({
                IF ~crypto_to_fiat /\ IsZero(rate)
                THEN Raised("ZeroDivisionError", "", "",
                            <<Request("coingecko", response)>>)
                ELSE Returned(RMul(IF crypto_to_fiat THEN RMul(amount, rate)
                                   ELSE RDiv(amount, rate),
                                   CommissionFactor(commission)),
                              t, <<Request("coingecko", response)>>)
                : rate \in {response.data[crypto_id][fiat_code]}})
            ELSE The({
                [via EXCEPT !.reqs = <<Request("coingecko", response)>> \o via.reqs]
                : via \in {convert_via_usd(base_code, quote_code, amount, commission,
                                           mk, t, Tail(script))}})
            : crypto_id \in {COINGECKO_IDS[crypto_code]},
              response \in {CoinGecko(mk, {COINGECKO_IDS[crypto_code]}, fiat_code,
                                      script[1])}})

\* the cross rate taken the wrong way round
ViaBaseRates_Inverted(amount, base_rate, quote_rate) ==
    RMul(RDiv(amount, quote_rate), base_rate)

\* result = (amount / base_rate) * quote_rate
ViaBaseRates(amount, base_rate, quote_rate) ==
    RMul(RDiv(amount, base_rate), quote_rate)

convert_fiat_to_fiat(base_code, quote_code, amount, commission, mk, t, script) ==
    The({
        IF response.status # 200
        THEN Raised("APIException", "UpstreamUnavailable", "status",
                    <<Request("openexchangerates", response)>>)
        ELSE IF ~response.json
        THEN Raised("ValueError", "", "", <<Request("openexchangerates", response)>>)
        ELSE IF "rates" \notin DOMAIN response.data
                  \/ "timestamp" \notin DOMAIN response.data
        THEN Raised("APIException", "UpstreamUnavailable", "missing",
                    <<Request("openexchangerates", response)>>)
        ELSE The({
            IF Falsy(base_rate) \/ Falsy(quote_rate)
            THEN Raised("APIException", "UpstreamUnavailable", "price",
                        <<Request("openexchangerates", response)>>)
            ELSE Returned(RMul(ViaBaseRates(amount, base_rate, quote_rate),
                               CommissionFactor(commission)),
                          response.data["timestamp"],
                          <<Request("openexchangerates", response)>>)
            : base_rate \in {Get(response.data["rates"], Upper(base_code))},
              quote_rate \in {Get(response.data["rates"], Upper(quote_code))}})
        : response \in {OpenExchangeRates(mk, t, script[1])}})

\* <<base, quote>> as callers pass them: tickers, canonical names and aliases
\* in several spellings, one pair for each way the codes are classified
SupportedPairs == {
    <<Lat("USD"), Cyr("Rublx")>>,
    <<Lat("rub"), Cyr("dollar")>>,
    <<Lat("btc"), Cyr("Hfirium")>>,
    <<Cyr("Bitkoin"), Lat(" RUB ")>>,
    <<Cyr("rublx"), Lat("BTC")>>
}

UnknownPairs == {
    <<Lat("Zorkmid"), Lat("USD")>>,
    <<Lat("USD"), Lat("Zorkmid")>>,
    <<<<>>, Lat("USD")>>
}

\* the pairs converted ahead of an expression
PrimingPairs == {<<Lat("EUR"), Lat("USD")>>, <<Lat("USD"), Lat("RUB")>>,
                 <<Lat("RUB"), Lat("USD")>>}

\* the names the callers of this model pass
CallNames == {p[1] : p \in SupportedPairs \cup UnknownPairs \cup PrimingPairs}
             \cup {p[2] : p \in SupportedPairs \cup UnknownPairs \cup PrimingPairs}
             \cup CanonicalNames

\* normalize_currency_name, computed once for each name in CallNames
NormalizeTable == [raw \in CallNames |-> normalize_currency_name(raw)]

Normalize(raw) ==
    IF raw \in CallNames THEN NormalizeTable[raw] ELSE normalize_currency_name(raw)

crypto_list == {Lat("btc"), Lat("eth"), Lat("ltc"), Lat("usdt"), Lat("bnb"),
                Lat("xrp"), Lat("doge")}

\* Resolve with the pair classified by its base alone
Resolve_ByBase(base_code, quote_code, amount, commission, mk, t, script) ==
    IF base_code \in crypto_list
    THEN IF quote_code \in crypto_list
         THEN convert_crypto_to_crypto(base_code, quote_code, amount, commission, mk, t, script)
         ELSE convert_crypto_to_fiat(base_code, quote_code, amount, commission, mk, t, script)
    ELSE convert_fiat_to_fiat(base_code, quote_code, amount, commission, mk, t, script)

\* the resolution of get_price's try block, before the rate is cached
Resolve(base_code, quote_code, amount, commission, mk, t, script) ==
    IF base_code \in crypto_list \/ quote_code \in crypto_list
    THEN IF base_code \in crypto_list /\ quote_code \in crypto_list
         THEN convert_crypto_to_crypto(base_code, quote_code, amount, commission, mk, t, script)
         ELSE convert_crypto_to_fiat(base_code, quote_code, amount, commission, mk, t, script)
    ELSE convert_fiat_to_fiat(base_code, quote_code, amount, commission, mk, t, script)

\* which branch of get_price's routing the codes select
Route(base_code, quote_code) ==
    IF base_code \in crypto_list \/ quote_code \in crypto_list
    THEN IF base_code \in crypto_list /\ quote_code \in crypto_list
         THEN "crypto_to_crypto" ELSE "crypto_to_fiat"
    ELSE "fiat_to_fiat"

\* what get_price reports: the outcome (as above), with base_code and
\* quote_code, whether the cache was read and answered (read, hit), the
\* routing branch entered, and the cache the call leaves
Report(r, base_code, quote_code, read, hit, route, cache) ==
    [exc |-> r.exc, kind |-> r.kind, cause |-> r.cause, result |-> r.result,
     ts |-> r.ts, reqs |-> r.reqs, base_code |-> base_code,
     quote_code |-> quote_code, read |-> read, hit |-> hit, route |-> route,
     cache |-> cache]

\* the cache-hit return without the commission
CachedAnswer_NoCommission(amount, commission, cached) ==
    Returned(RMul(amount, cached[1]), cached[2], <<>>)

\* the cache-hit return: amount * cached_rate * (1 + commission/100), cached_ts
CachedAnswer(amount, commission, cached) ==
    Returned(RMul(RMul(amount, cached[1]), CommissionFactor(commission)),
             cached[2], <<>>)

\* Finish without the handler of line 80: an exception leaves as it is
Finish_Unwrapped(cache, t, base_code, quote_code, amount, commission, r) ==
    LET divisor == RMul(amount, CommissionFactor(commission))
    IN  IF r.exc # "" THEN [out |-> r, cache |-> cache]
        ELSE IF IsZero(divisor)
        THEN [out |-> Raised("ZeroDivisionError", "", "", r.reqs), cache |-> cache]
        ELSE [out |-> r,
              cache |-> cache_rate(cache, t, base_code, quote_code,
                                   RDiv(r.result, divisor))]

\* Finish with the cache written before the outcome is known
Finish_CachesFirst(cache, t, base_code, quote_code, amount, commission, r) ==
    LET divisor == RMul(amount, CommissionFactor(commission))
        written == cache_rate(cache, t, base_code, quote_code,
                              IF r.exc # "" \/ IsZero(divisor) THEN Num(0)
                              ELSE RDiv(r.result, divisor))
    IN  IF r.exc = "APIException" THEN [out |-> r, cache |-> written]
        ELSE IF r.exc # ""
        THEN [out |-> Raised("APIException", "ConversionFailed", r.exc, r.reqs),
              cache |-> written]
        ELSE IF IsZero(divisor)
        THEN [out |-> Raised("APIException", "ConversionFailed", "ZeroDivisionError",
                             r.reqs),
              cache |-> written]
        ELSE [out |-> r, cache |-> written]

\* the end of the try block and its handlers: the rate is derived from the
\* result and cached, an APIException passes, anything else is wrapped
Finish(cache, t, base_code, quote_code, amount, commission, r) ==
    LET divisor == RMul(amount, CommissionFactor(commission))
    IN  IF r.exc = "APIException" THEN [out |-> r, cache |-> cache]
        ELSE IF r.exc # ""
        THEN [out |-> Raised("APIException", "ConversionFailed", r.exc, r.reqs),
              cache |-> cache]
        ELSE IF IsZero(divisor)
        THEN [out |-> Raised("APIException", "ConversionFailed", "ZeroDivisionError",
                             r.reqs),
              cache |-> cache]
        ELSE [out |-> r,
              cache |-> cache_rate(cache, t, base_code, quote_code,
                                   RDiv(r.result, divisor))]

\* get_price once both names are normalized: the codes, the cache, the routing
Priced(cache, t, base_key, quote_key, amount, commission, mk, script) ==
    IF base_key \notin CanonicalNames \/ quote_key \notin CanonicalNames
    THEN Report(Raised("KeyError", "", "", <<>>), None, None, FALSE, FALSE, "", cache)
    ELSE The({
        IF get_cached_rate(cache, t, base_code, quote_code)[1] # None
        THEN Report(CachedAnswer(amount, commission,
                                 get_cached_rate(cache, t, base_code, quote_code)),
                    base_code, quote_code, TRUE, TRUE, "", cache)
        ELSE The({
            Report(fin.out, base_code, quote_code, TRUE, FALSE,
                   Route(base_code, quote_code), fin.cache)
            : fin \in {Finish(cache, t, base_code, quote_code, amount, commission,
                              Resolve(base_code, quote_code, amount, commission,
                                      mk, t, script))}})
        : base_code \in {Lower(CodeOf(base_key))},
          quote_code \in {Lower(CodeOf(quote_key))}})

\* get_price without the check of the quote name
get_price_NoQuoteCheck(cache, t, base, quote, amount, commission, mk, script) ==
    The({
        IF base_key = None
        THEN Report(Raised("APIException", "UnknownCurrency", "", <<>>),
                    None, None, FALSE, FALSE, "", cache)
        ELSE Priced(cache, t, base_key, quote_key, amount, commission, mk, script)
        : base_key \in {Normalize(base)}, quote_key \in {Normalize(quote)}})

get_price(cache, t, base, quote, amount, commission, mk, script) ==
    The({
        IF base_key = None \/ quote_key = None
        THEN Report(Raised("APIException", "UnknownCurrency", "", <<>>),
                    None, None, FALSE, FALSE, "", cache)
        ELSE Priced(cache, t, base_key, quote_key, amount, commission, mk, script)
        : base_key \in {Normalize(base)}, quote_key \in {Normalize(quote)}})

-----------------------------------------------------------------------------
(* extensions.py: CryptoConverter.process_complex_expression.              *)

\* re.split(r'(\+|\-|\*|\/|в|to)', expression, flags=re.IGNORECASE): the
\* pieces between the delimiters and the delimiters themselves, in order
RECURSIVE SplitFrom(_, _, _)
SplitFrom(s, piece, acc) ==
    IF s = <<>> THEN Append(acc, piece)
    ELSE IF s[1] \in {"+", "-", "*", "/", "~v", "~V"}
    THEN SplitFrom(Tail(s), <<>>, acc \o <<piece, <<s[1]>>>>)
    ELSE IF Len(s) >= 2 /\ s[1] \in {"t", "T"} /\ s[2] \in {"o", "O"}
    THEN SplitFrom(SubSeq(s, 3, Len(s)), <<>>, acc \o <<piece, <<s[1], s[2]>>>>)
    ELSE SplitFrom(Tail(s), Append(piece, s[1]), acc)

\* expression.replace("(", "").replace(")", "")
RECURSIVE DropParens(_)
DropParens(s) ==
    IF s = <<>> THEN <<>>
    ELSE IF s[1] \in {"(", ")"} THEN DropParens(Tail(s))
    ELSE <<s[1]>> \o DropParens(Tail(s))

\* [p.strip() for p in parts if p.strip()]
RECURSIVE StripParts(_)
StripParts(ps) ==
    IF ps = <<>> THEN <<>>
    ELSE IF Strip(ps[1]) = <<>> THEN StripParts(Tail(ps))
    ELSE <<Strip(ps[1])>> \o StripParts(Tail(ps))

Parts(expression) == StripParts(SplitFrom(DropParens(expression), <<>>, <<>>))

\* the last of the parts in place of all of them joined
Join_Last(ps) == ps[Len(ps)]

\* ' '.join(parts)
RECURSIVE Join(_)
Join(ps) ==
    IF ps = <<>> THEN <<>>
    ELSE IF Len(ps) = 1 THEN ps[1]
    ELSE ps[1] \o <<" ">> \o Join(Tail(ps))

DigitString == "0123456789"

DigitValue(c) == (CHOOSE k \in 1..10 : SubSeq(DigitString, k, k) = c) - 1

\* the value of a text of digits and dots, read left to right
RECURSIVE FloatFrom(_, _, _, _)
FloatFrom(s, n, d, seen) ==
    IF s = <<>> THEN Rat(n, d)
    ELSE IF s[1] = "." THEN FloatFrom(Tail(s), n, d, TRUE)
    ELSE FloatFrom(Tail(s), 10 * n + DigitValue(s[1]), IF seen THEN 10 * d ELSE d, seen)

\* float(text) for a text of digits and dots: a ValueError unless it has a
\* digit and at most one dot
float(s) ==
    IF Cardinality({i \in 1..Len(s) : s[i] = "."}) > 1
         \/ \A i \in 1..Len(s) : s[i] = "."
    THEN <<"ValueError">>
    ELSE FloatFrom(s, 0, 1, FALSE)

\* the length of the longest prefix of s made of characters of cs
RECURSIVE PrefixLen(_, _)
PrefixLen(s, cs) ==
    IF s # <<>> /\ s[1] \in cs THEN 1 + PrefixLen(Tail(s), cs) ELSE 0

\* re.match(r'^([\d\.]+)\s*([a-zA-Zа-яА-Я]+)?$', part): <<group 1, group 2>>
\* (group 2 empty when absent), or None
MatchTerm(part) ==
    The({IF n >= 1 /\ \A i \in 1..Len(LStrip(SubSeq(part, n + 1, Len(part)))) :
                          LStrip(SubSeq(part, n + 1, Len(part)))[i] \in Letters
         THEN <<SubSeq(part, 1, n), LStrip(SubSeq(part, n + 1, Len(part)))>>
         ELSE None
        : n \in {PrefixLen(part, Digits \cup {"."})}})

\* the amount and the currency of a term
Term(part) ==
    The({
        IF m = None /\ bare = None
        THEN [exc |-> "APIException", kind |-> "UnparsableTerm", amount |-> None,
              curr_key |-> None]
        ELSE The({
            IF amount = <<"ValueError">>
            THEN [exc |-> "ValueError", kind |-> "", amount |-> None,
                  curr_key |-> None]
            ELSE IF curr_key = None
            THEN [exc |-> "APIException", kind |-> "UnknownCurrency",
                  amount |-> amount, curr_key |-> None]
            ELSE [exc |-> "", kind |-> "", amount |-> amount, curr_key |-> curr_key]
            : amount \in {IF m = None THEN Num(1) ELSE float(m[1])},
              curr_key \in {IF m = None THEN normalize_currency_name(bare)
                            ELSE IF m[2] = <<>>
                            THEN normalize_currency_name(Lat("USD"))
                            ELSE normalize_currency_name(m[2])}})
        : m \in {MatchTerm(part)},
          bare \in {normalize_currency_name(part)}})

\* the operators with their operands exchanged
ApplyOperator_Swapped(current_operator, total_usd, converted) ==
    CASE current_operator = "+" -> RAdd(converted, total_usd)
      [] current_operator = "-" -> RSub(converted, total_usd)
      [] current_operator = "*" -> RMul(converted, total_usd)
      [] current_operator = "/" -> RDiv(converted, total_usd)

\* total_usd = total_usd + converted, with + overwriting the total
ApplyOperator_Overwrite(current_operator, total_usd, converted) ==
    CASE current_operator = "+" -> converted
      [] current_operator = "-" -> RSub(total_usd, converted)
      [] current_operator = "*" -> RMul(total_usd, converted)
      [] current_operator = "/" -> RDiv(total_usd, converted)

\* total_usd += converted, -= converted, *= converted, /= converted
ApplyOperator(current_operator, total_usd, converted) ==
    CASE current_operator = "+" -> RAdd(total_usd, converted)
      [] current_operator = "-" -> RSub(total_usd, converted)
      [] current_operator = "*" -> RMul(total_usd, converted)
      [] current_operator = "/" -> RDiv(total_usd, converted)

OkScript == <<"ok", "ok", "ok">>

\* the responses the k-th conversion of an evaluation meets
ScriptAt(scripts, k) == IF k <= Len(scripts) THEN scripts[k] ELSE OkScript

\* what an evaluation has done so far: total_usd, current_operator and
\* target_currency, the exception raised, and the cache, the requests, the
\* response shapes met, the terms folded and the pairs resolved upstream
NoTerms(cache) ==
    [exc |-> "", kind |-> "", cause |-> "", total |-> Num(0), op |-> "+",
     target |-> None, target_key |-> None, cache |-> cache, reqs |-> <<>>,
     shapes |-> <<>>, terms |-> <<>>, resolved |-> {}]

\* one get_price call of an evaluation, folded into what it has done
Converted(st, r, script) ==
    [st EXCEPT !.cache = r.cache,
               !.reqs = @ \o r.reqs,
               !.shapes = @ \o SubSeq(script, 1, Len(r.reqs)),
               !.resolved = IF r.exc = "" /\ ~r.hit
                            THEN @ \cup {<<r.base_code, r.quote_code>>} ELSE @]

\* the loop over the parts, from part i on
RECURSIVE Terms(_, _, _, _, _, _)
Terms(parts, i, st, t, mk, scripts) ==
    IF i > Len(parts) THEN st
    ELSE IF Lower(parts[i]) \in {Cyr("v"), Lat("to")}
    THEN [st EXCEPT !.target = IF i + 1 <= Len(parts)
                                THEN Join(SubSeq(parts, i + 1, Len(parts)))
                                ELSE None]
    ELSE IF parts[i] \in {<<"+">>, <<"-">>, <<"*">>, <<"/">>}
    THEN Terms(parts, i + 1, [st EXCEPT !.op = parts[i][1]], t, mk, scripts)
    ELSE The({
        IF term.exc # ""
        THEN [st EXCEPT !.exc = term.exc, !.kind = term.kind]
        ELSE The({
            IF r.exc # ""
            THEN [Converted(st, r, script)
                    EXCEPT !.exc = r.exc, !.kind = r.kind, !.cause = r.cause]
            ELSE IF st.op = "/" /\ IsZero(r.result)
            THEN [Converted(st, r, script)
                    EXCEPT !.exc = "APIException", !.kind = "DivisionByZero"]
            ELSE Terms(parts, i + 1,
                       [Converted(st, r, script)
                          EXCEPT !.total = ApplyOperator(st.op, st.total, r.result),
                                 !.terms = Append(@, [op |-> st.op,
                                                      amount |-> term.amount,
                                                      code |-> r.base_code,
                                                      value |-> r.result])],
                       t, mk, scripts)
            : r \in {get_price(st.cache, t, term.curr_key, Lat("USD"), term.amount,
                               Num(0), mk, script)}})
        : term \in {Term(parts[i])},
          script \in {ScriptAt(scripts, Len(st.terms) + 1)}})

process_complex_expression(expression, cache, t, mk, scripts) ==
    The({
        IF Len(parts) < 3
        THEN [NoTerms(cache) EXCEPT !.exc = "APIException",
                                    !.kind = "ExpressionTooShort"]
        ELSE The({
            IF st.exc # "" THEN st
            ELSE The({
                IF target_key = None
                THEN [st EXCEPT !.exc = "APIException", !.kind = "UnknownCurrency"]
                ELSE [st EXCEPT !.target_key = target_key]
                : target_key \in {normalize_currency_name(
                                      IF st.target = None \/ st.target = <<>>
                                      THEN Lat("USD") ELSE st.target)}})
            : st \in {Terms(parts, 1, NoTerms(cache), t, mk, scripts)}})
        : parts \in {Parts(expression)}})

-----------------------------------------------------------------------------
(* main.py: text_converter, the handler of a text message.                 *)

RECURSIVE Pow10(_)
Pow10(k) == IF k = 0 THEN 1 ELSE 10 * Pow10(k - 1)

\* f"{x:.kf}": x rounded to k decimals, a tie going to the even digit
Fixed(x, k) ==
    LET a == Abs(x[1])
        q == a \div x[2]
        scaled == (a % x[2]) * Pow10(k)
        f == scaled \div x[2]
        rem == scaled % x[2]
        up == 2 * rem > x[2] \/ (2 * rem = x[2] /\ f % 2 = 1)
        m == q * Pow10(k) + f + (IF up THEN 1 ELSE 0)
    IN  Rat(IF x[1] < 0 THEN 0 - m ELSE m, Pow10(k))

\* re.search(r'[\+\-\*\/]', text) and (' в ' in text or ' to ' in text)
IsExpression(text) ==
    /\ \E i \in 1..Len(text) : text[i] \in {"+", "-", "*", "/"}
    /\ Contains(text, <<" ", "~v", " ">>) \/ Contains(text, Lat(" to "))

\* the expression branch: the evaluation, then get_price('USD', target,
\* total_usd), then the reply: the result, or the message of the exception
text_converter(message_text, cache, t, mk, scripts) ==
    LET failed(st, exc, kind, cause) ==
            [exc |-> exc, kind |-> kind, cause |-> cause, total |-> st.total,
             target |-> st.target_key, terms |-> st.terms, cache |-> st.cache,
             reqs |-> st.reqs, shapes |-> st.shapes, resolved |-> st.resolved,
             result |-> None, ts |-> None, shown |-> None,
             reply |-> IF exc = "APIException" THEN "expression_error"
                       ELSE "system_error"]
    IN  The({
        IF e.exc # "" THEN failed(e, e.exc, e.kind, e.cause)
        ELSE The({
            IF f.exc # ""
            THEN failed(Converted(e, f, ScriptAt(scripts, Len(e.terms) + 1)),
                        f.exc, f.kind, f.cause)
            ELSE The({
                [exc |-> "", kind |-> "", cause |-> "", total |-> e.total,
                 target |-> e.target_key, terms |-> e.terms, cache |-> done.cache,
                 reqs |-> done.reqs, shapes |-> done.shapes,
                 resolved |-> done.resolved, result |-> f.result, ts |-> f.ts,
                 shown |-> <<Fixed(e.total, 2), Fixed(f.result, 3)>>,
                 reply |-> "result"]
                : done \in {Converted(e, f, ScriptAt(scripts, Len(e.terms) + 1))}})
            : f \in {get_price(e.cache, t, Lat("USD"), e.target_key, e.total,
                               Num(0), mk, ScriptAt(scripts, Len(e.terms) + 1))}})
        : e \in {process_complex_expression(Strip(message_text), cache, t, mk,
                                            scripts)}})

-----------------------------------------------------------------------------
(* The state machine: calls of the engine, and time passing between them.  *)
(* `last` records what the latest call was given and what it did, and     *)
(* `resolved` the ordered pairs of codes a call has resolved upstream and  *)
(* returned a result for.  `threads` and `writes` belong to the calls that *)
(* run interleaved, and `user_states` to the guided dialogue (main.py):    *)
(* `dicts` holds the dict objects the sessions are, `user_states` maps a   *)
(* chat to the index of its dict, and `handled` lists the dicts whose     *)
(* amount message has been handled.                                        *)

MaxCalls == 2
MaxTicks == 1
StartTime == 100000

\* the clock advances between calls by one of these
TickSteps == {CACHE_DURATION - 1, CACHE_DURATION}

\* <<amount, commission>>
Amounts == {<<Num(1), Num(0)>>, <<Num(100), Num(0)>>, <<Num(100), Num(10)>>,
            <<Num(0), Num(0)>>, <<Num(1), Num(-100)>>}

\* <<market, shapes of the responses to the (at most three) requests of a call>>
\* a first response of each shape, the later ones sound
DirectUpstreams ==
    {<<mk, <<"ok", "ok", "ok">>>> : mk \in 1..Len(Markets)}
    \cup {<<1, <<a, "ok", "ok">>>> : a \in Shapes \ {"ok"}}

\* no direct quote, then the two legs of the USD bridge, one of them unsound
BridgeUpstreams ==
    {<<2, <<"partial", "ok", "ok">>>>}
    \cup {<<1, <<"partial", b, "ok">>>> :
            b \in {"http_err", "http_err_data", "zero", "partial", "no_ts"}}
    \cup {<<1, <<"partial", "ok", c>>>> :
            c \in {"http_err", "http_err_data", "zero", "partial", "no_ts"}}

NoCall ==
    [op |-> "none", base |-> None, quote |-> None, amount |-> None,
     commission |-> None, at |-> 0, exc |-> "", kind |-> "", cause |-> "",
     result |-> None, ts |-> None, reqs |-> <<>>, shapes |-> <<>>, mk |-> 0,
     base_code |-> None, quote_code |-> None, read |-> FALSE, hit |-> FALSE,
     route |-> "", before |-> <<>>, free |-> None, repeat |-> FALSE,
     prevReqs |-> 0, prevExc |-> "", prevHit |-> FALSE, total |-> None,
     target |-> None, terms |-> <<>>, shown |-> None, reply |-> "",
     target_currency |-> None]

\* the worker threads that run the handlers (telebot.TeleBot: num_threads=2)
Threads == {1, 2}

\* a thread that is in no call of get_price: where it is in the call (pc),
\* the call's amount, what RATE_CACHE.get(key) gave it (seen), and the
\* outcome of its resolution (r) and of the call (out)
NoThread ==
    [pc |-> "idle", amount |-> None, seen |-> None, r |-> None, out |-> None]

Init ==
    /\ RATE_CACHE = <<>>
    /\ now = StartTime
    /\ last = NoCall
    /\ calls = 0
    /\ ticks = 0
    /\ resolved = {}
    /\ threads = [p \in Threads |-> NoThread]
    /\ writes = <<>>
    /\ user_states = <<>>
    /\ dicts = <<>>
    /\ handled = {}

\* a caller invokes CryptoConverter.get_price(base, quote, amount, commission);
\* free is what the same call returns with commission 0
Call(limit, base, quote, amount, commission, mk, script) ==
    /\ calls < limit
    /\ \E r \in {get_price(RATE_CACHE, now, base, quote, amount, commission, mk, script)} :
       \E free \in {IF IsZero(commission) THEN r.result
                    ELSE get_price(RATE_CACHE, now, base, quote, amount, Num(0),
                                   mk, script).result} :
          /\ RATE_CACHE' = r.cache
          /\ resolved' = IF r.exc = "" /\ ~r.hit
                          THEN resolved \cup {<<r.base_code, r.quote_code>>}
                          ELSE resolved
          /\ last' = [op |-> "convert", base |-> base, quote |-> quote,
                      amount |-> amount, commission |-> commission, at |-> now,
                      exc |-> r.exc, kind |-> r.kind, cause |-> r.cause,
                      result |-> r.result, ts |-> r.ts, reqs |-> r.reqs,
                      shapes |-> SubSeq(script, 1, Len(r.reqs)),
                      mk |-> IF r.reqs = <<>> THEN 0 ELSE mk,
                      base_code |-> r.base_code, quote_code |-> r.quote_code,
                      read |-> r.read, hit |-> r.hit, route |-> r.route,
                      before |-> RATE_CACHE, free |-> free,
                      repeat |-> /\ last.op = "convert"
                                 /\ last.base = base /\ last.quote = quote
                                 /\ last.amount = amount
                                 /\ last.commission = commission
                                 /\ now - last.at < CACHE_DURATION,
                      prevReqs |-> Len(last.reqs), prevExc |-> last.exc,
                      prevHit |-> last.hit, total |-> None, target |-> None,
                      terms |-> <<>>, shown |-> None, reply |-> "",
                      target_currency |-> None]
    /\ calls' = calls + 1
    /\ UNCHANGED <<now, ticks, threads, writes, user_states, dicts, handled>>

\* time passes after a call
Tick(limit, tlimit, d) ==
    /\ ticks < tlimit
    /\ 0 < calls /\ calls < limit
    /\ now' = now + d
    /\ ticks' = ticks + 1
    /\ UNCHANGED <<RATE_CACHE, last, calls, resolved, threads, writes, user_states, dicts, handled>>

\* the pairs with exactly one crypto side: the only ones the bridge serves
BridgedPairs ==
    {p \in SupportedPairs :
        Route(Lower(CodeOf(Normalize(p[1]))), Lower(CodeOf(Normalize(p[2]))))
          = "crypto_to_fiat"}

\* a call with a name that does not resolve
ConvertUnknown ==
    \E p \in UnknownPairs :
        Call(MaxCalls, p[1], p[2], Num(1), Num(0), 1, <<"ok", "ok", "ok">>)

\* a call whose first response decides it
ConvertDirect ==
    \E p \in SupportedPairs, a \in Amounts, u \in DirectUpstreams :
        Call(MaxCalls, p[1], p[2], a[1], a[2], u[1], u[2])

\* a call that finds no direct quote and a bridge leg that is not sound
ConvertBridged ==
    \E p \in BridgedPairs, a \in Amounts, u \in BridgeUpstreams :
        Call(MaxCalls, p[1], p[2], a[1], a[2], u[1], u[2])

Convert == ConvertUnknown \/ ConvertDirect \/ ConvertBridged

Pass == \E d \in TickSteps : Tick(MaxCalls, MaxTicks, d)

Next == Convert \/ Pass

Spec == Init /\ [][Next]_vars

-----------------------------------------------------------------------------
(* Longer histories over fewer inputs: three calls and two clock steps, so *)
(* that a call answered from the cache can be followed by the same call    *)
(* once the entry has aged out.                                            *)

MaxDeepCalls == 3
MaxDeepTicks == 2

DeepPairs == {<<Lat("USD"), Cyr("Rublx")>>, <<Cyr("Bitkoin"), Lat(" RUB ")>>}

DeepAmounts == {Num(100), Num(0)}

DeepUpstreams == {<<1, <<"ok", "ok", "ok">>>>, <<1, <<"http_err", "ok", "ok">>>>,
                  <<2, <<"partial", "ok", "ok">>>>}

DeepConvert ==
    \E p \in DeepPairs, a \in DeepAmounts, u \in DeepUpstreams :
        Call(MaxDeepCalls, p[1], p[2], a, Num(0), u[1], u[2])

DeepPass == \E d \in TickSteps : Tick(MaxDeepCalls, MaxDeepTicks, d)

DeepNext == DeepConvert \/ DeepPass

SpecDeep == Init /\ [][DeepNext]_vars

\* C1: of two consecutive convert(A, B, amt, 0) calls less than 3600 s apart
\* of which the first returns a result, at most one goes upstream; a call
\* that goes upstream issues at most three requests; a second call that
\* returns a result returns amt multiplied by the rate held in the cache for
\* (A, B); after a first call that failed the second goes upstream again.
C1_CacheIdempotence ==
    last.op = "convert" /\ last.repeat /\ IsZero(last.commission) /\ last.read =>
        LET key == CacheKey(last.base_code, last.quote_code)
        IN  /\ last.prevExc = "" => last.prevReqs = 0 \/ last.reqs = <<>>
            /\ last.prevReqs <= 3 /\ Len(last.reqs) <= 3
            /\ last.exc = "" =>
                  /\ key \in DOMAIN RATE_CACHE
                  /\ last.result = RMul(last.amount, RATE_CACHE[key][1])
            /\ last.prevExc # "" => ~last.hit /\ Len(last.reqs) >= 1

\* the first call resolved the rate over the USD bridge with three requests,
\* the second was answered from the cache
C1_Witness ==
    /\ last.op = "convert" /\ last.repeat /\ IsZero(last.commission)
    /\ last.prevExc = "" /\ last.prevReqs = 3
    /\ last.hit /\ last.reqs = <<>>
    /\ last.exc = "" /\ ~IsZero(last.result)

\* C1 as stated, even when the first call returns a result: two consecutive
\* convert(A, B, amt, 0) calls less than 3600 s apart issue at most one
\* upstream request in total, and the second returns amt multiplied by the
\* rate held in the cache for (A, B).
C1_AtMostOneRequest ==
    last.op = "convert" /\ last.repeat /\ IsZero(last.commission) /\ last.read
        /\ last.prevExc = "" =>
        /\ last.prevReqs + Len(last.reqs) <= 1
        /\ last.exc = "" =>
             /\ CacheKey(last.base_code, last.quote_code) \in DOMAIN RATE_CACHE
             /\ last.result =
                  RMul(last.amount,
                       RATE_CACHE[CacheKey(last.base_code, last.quote_code)][1])

-----------------------------------------------------------------------------
(* Text messages holding an expression, after conversions that may have    *)
(* left rates in the cache.                                                *)

MaxExprCalls == 2

Expressions == {
    Lat("100 USD + 50 EUR ") \o Cyr("v") \o Lat(" RUB"),
    Lat("100 USD / 0 EUR ") \o Cyr("v") \o Lat(" RUB"),
    Lat("100 USD / 5 EUR to EUR"),
    Lat("1 BTC - 50000 USD to EUR"),
    Lat(" 2 * 3 + 1.5 to USD "),
    Lat("(10 RUB - 4 RUB) * 3 ") \o Cyr("v") \o Lat(" ") \o Cyr("rublx")
}

\* the first response each conversion of an evaluation meets
ExprScripts ==
    {<<<<a, "ok", "ok">>, <<b, "ok", "ok">>, <<c, "ok", "ok">>>> :
        a \in {"ok", "http_err"}, b \in {"ok", "http_err"}, c \in {"ok", "http_err"}}

\* a text message holding an expression arrives
Evaluate(limit, message_text, mk, scripts) ==
    /\ calls < limit
    /\ IsExpression(Strip(message_text))
    /\ \E r \in {text_converter(message_text, RATE_CACHE, now, mk, scripts)} :
          /\ RATE_CACHE' = r.cache
          /\ resolved' = resolved \cup r.resolved
          /\ last' = [NoCall EXCEPT !.op = "evaluate", !.base = message_text,
                                    !.at = now, !.exc = r.exc, !.kind = r.kind,
                                    !.cause = r.cause, !.result = r.result,
                                    !.ts = r.ts, !.reqs = r.reqs,
                                    !.shapes = r.shapes,
                                    !.mk = IF r.reqs = <<>> THEN 0 ELSE mk,
                                    !.before = RATE_CACHE, !.total = r.total,
                                    !.target = r.target, !.terms = r.terms,
                                    !.shown = r.shown, !.reply = r.reply]
    /\ calls' = calls + 1
    /\ UNCHANGED <<now, ticks, threads, writes, user_states, dicts, handled>>

ExprEvaluate ==
    \E x \in Expressions, mk \in 1..Len(Markets), scripts \in ExprScripts :
        Evaluate(MaxExprCalls, x, mk, scripts)

ExprConvert ==
    \E p \in PrimingPairs, a \in {Num(50), Num(0)}, mk \in 1..Len(Markets) :
        Call(MaxExprCalls, p[1], p[2], a, Num(0), mk, OkScript)

ExprPass == \E d \in TickSteps : Tick(MaxExprCalls, MaxTicks, d)

ExprNext == ExprEvaluate \/ ExprConvert \/ ExprPass

SpecExpr == Init /\ [][ExprNext]_vars

\* the terms folded left to right from 0: the total after the first k terms
RECURSIVE FoldLeft(_, _)
FoldLeft(terms, k) ==
    IF k = 0 THEN Num(0)
    ELSE LET before == FoldLeft(terms, k - 1)
             v == terms[k].value
         IN  CASE terms[k].op = "+" -> RAdd(before, v)
               [] terms[k].op = "-" -> RSub(before, v)
               [] terms[k].op = "*" -> RMul(before, v)
               [] terms[k].op = "/" -> RDiv(before, v)

\* C8: the displayed result of an expression is convert(USD, target,
\* totalUsd, 0), where totalUsd folds the terms, each converted to USD with
\* zero commission; "100 USD + 50 EUR в RUB" with EUR->USD = 1.1 and
\* USD->RUB = 90 gives totalUsd = 155 with target RUB, and 13950.
C8_ExpressionResult ==
    last.op = "evaluate" /\ last.exc = "" =>
        LET final == CacheKey(Lat("usd"), Lower(CodeOf(last.target)))
            eur_usd == CacheKey(Lat("eur"), Lat("usd"))
            usd_rub == CacheKey(Lat("usd"), Lat("rub"))
        IN  /\ \A k \in 1..Len(last.terms) :
                  LET key == CacheKey(last.terms[k].code, Lat("usd"))
                  IN  /\ key \in DOMAIN RATE_CACHE
                      /\ last.terms[k].value =
                           RMul(last.terms[k].amount, RATE_CACHE[key][1])
            /\ last.total = FoldLeft(last.terms, Len(last.terms))
            /\ final \in DOMAIN RATE_CACHE
            /\ last.result = RMul(last.total, RATE_CACHE[final][1])
            /\ last.shown = <<Fixed(last.total, 2), Fixed(last.result, 3)>>
            /\ (/\ last.base = Lat("100 USD + 50 EUR ") \o Cyr("v") \o Lat(" RUB")
                /\ RATE_CACHE[eur_usd][1] = Rat(11, 10)
                /\ RATE_CACHE[usd_rub][1] = Num(90))
               => /\ last.total = Num(155)
                  /\ last.target = Cyr("Rublx")
                  /\ last.result = Num(13950)

\* the example evaluated at these rates, with EUR->USD taken from the cache
C8_Witness ==
    /\ last.op = "evaluate" /\ last.exc = ""
    /\ last.base = Lat("100 USD + 50 EUR ") \o Cyr("v") \o Lat(" RUB")
    /\ CacheKey(Lat("eur"), Lat("usd")) \in DOMAIN last.before
    /\ Len(last.reqs) = 2
    /\ last.total = Num(155) /\ last.target = Cyr("Rublx")
    /\ last.result = Num(13950)

\* C9: with every upstream answer sound, "100 USD / 0 EUR в RUB" fails with
\* DivisionByZero from every starting cache state.
C9_DivisionByZero ==
    (/\ last.op = "evaluate"
     /\ last.base = Lat("100 USD / 0 EUR ") \o Cyr("v") \o Lat(" RUB")
     /\ \A i \in 1..Len(last.shapes) : last.shapes[i] = "ok")
    => last.exc = "APIException" /\ last.kind = "DivisionByZero"

-----------------------------------------------------------------------------
(* Names given to normalize_currency_name: every key of currency_map and   *)
(* every canonical name, in several letter cases, bare and padded with     *)
(* whitespace, and names outside the vocabulary.                           *)

\* str.capitalize()
Capitalize(s) == [i \in 1..Len(s) |-> IF i = 1 THEN UpperChar(s[i]) ELSE LowerChar(s[i])]

\* upper and lower case in turn
Alternate(s) == [i \in 1..Len(s) |-> IF i % 2 = 0 THEN UpperChar(s[i]) ELSE LowerChar(s[i])]

VocabularyKeys == {currency_map[i][1] : i \in 1..Len(currency_map)} \cup CanonicalNames

CaseForms(s) == {s, Lower(s), Upper(s), Capitalize(s), Alternate(s)}

Paddings == {<<<<>>, <<>>>>, <<<<" ">>, <<>>>>, <<<<>>, <<"\t">>>>,
             <<<<" ", " ">>, <<" ", "\n">>>>}

NormInputs ==
    {w[1] \o f \o w[2] : w \in Paddings, f \in UNION {CaseForms(k) : k \in VocabularyKeys}}
    \cup {None, <<>>, <<" ", " ">>, Lat("Zorkmid"), Lat("12"), Lat("Eurovision"),
          Lat("dogecoin"), Lat("usd1"), Cyr("Rubli"), Lat("12 ") \o Cyr("rublx")}

\* normalize_currency_name, computed once for each name in NormInputs
NormInputsTable == [raw \in NormInputs |-> normalize_currency_name(raw)]

\* a caller invokes CryptoConverter.normalize_currency_name(raw)
NormalizeName ==
    \E raw \in NormInputs :
        /\ last' = [NoCall EXCEPT !.op = "normalize", !.base = raw,
                                  !.result = NormInputsTable[raw]]
        /\ UNCHANGED <<RATE_CACHE, now, calls, ticks, resolved, threads, writes,
                       user_states, dicts, handled>>

SpecNorm == Init /\ [][NormalizeName]_vars

\* C10: for every supported currency, normalize_currency_name applied to its
\* ticker code, to its canonical name and to each of its aliases, in any
\* letter case and with surrounding whitespace, returns the currency's
\* canonical name.
C10_SameCanonicalName ==
    last.op = "normalize" /\ last.base # None =>
        LET name == Lower(Strip(last.base))
            aliases == {<<Cyr("baks"), Cyr("Dollar")>>, <<Cyr("baki"), Cyr("Dollar")>>,
                        <<Cyr("bitok"), Cyr("Bitkoin")>>, <<Cyr("hfir"), Cyr("Hfirium")>>,
                        <<Cyr("lajt"), Cyr("Lajtkoin")>>, <<Cyr("dogi"), Cyr("Dogikoin")>>}
        IN  /\ \A i \in 1..Len(CURRENCIES) :
                  name = Lower(CURRENCIES[i][1]) \/ name = Lower(CURRENCIES[i][2])
                      => last.result = CURRENCIES[i][1]
            /\ \A a \in aliases : name = a[1] => last.result = a[2]

\* the ticker usdt, in upper case and padded, gives its own currency although
\* the key usd is a part of it
C10_Witness ==
    /\ last.op = "normalize"
    /\ last.base = <<" ", " ">> \o Lat("USDT") \o <<" ", "\n">>
    /\ last.result = Cyr("Tezer")

-----------------------------------------------------------------------------
(* Properties of the rate cache and of a single conversion, under Spec.    *)

\* C2: a convert call that ends in an error leaves RATE_CACHE exactly as it
\* was before the call; an entry is written only by a call that returns a
\* result.
C2_ErrorLeavesCache ==
    last.op = "convert" =>
        /\ last.exc # "" => RATE_CACHE = last.before
        /\ RATE_CACHE # last.before => last.exc = ""

\* a call that failed after going upstream, with entries already cached
C2_Witness ==
    /\ last.op = "convert" /\ last.exc # ""
    /\ Len(last.reqs) >= 1
    /\ DOMAIN last.before # {}
    /\ RATE_CACHE = last.before

\* C3: a convert call is answered from the cache exactly when the entry of
\* its ordered pair is younger than 3600 s (now - observedAt < 3600); an entry
\* of age 3600 or more is treated as absent and the rate is resolved upstream.
C3_FreshnessWindow ==
    last.op = "convert" /\ last.read =>
        LET key == CacheKey(last.base_code, last.quote_code)
            fresh == /\ key \in DOMAIN last.before
                     /\ last.at - last.before[key][2] < 3600
        IN  /\ last.hit <=> fresh
            /\ last.hit => last.reqs = <<>>
            /\ ~fresh => Len(last.reqs) >= 1

\* an entry aged exactly 3600 s, and the call going upstream
C3_Witness ==
    /\ last.op = "convert" /\ last.read /\ ~last.hit
    /\ CacheKey(last.base_code, last.quote_code) \in DOMAIN last.before
    /\ last.at - last.before[CacheKey(last.base_code, last.quote_code)][2] = 3600
    /\ Len(last.reqs) >= 1

\* C4: the key is the ordered pair: a convert(B, A) call is answered from the
\* cache only if (B, A) itself was resolved upstream by an earlier call that
\* returned a result, whatever is cached for (A, B).
C4_OrderedPairKey ==
    last.op = "convert" /\ last.hit =>
        <<last.base_code, last.quote_code>> \in resolved

\* (A, B) is cached and fresh, (B, A) was never resolved, and convert(B, A)
\* goes upstream
C4_Witness ==
    /\ last.op = "convert" /\ last.read /\ ~last.hit
    /\ last.base_code # last.quote_code
    /\ CacheKey(last.quote_code, last.base_code) \in DOMAIN last.before
    /\ last.at - last.before[CacheKey(last.quote_code, last.base_code)][2] < 3600
    /\ CacheKey(last.base_code, last.quote_code) \notin DOMAIN last.before
    /\ Len(last.reqs) >= 1

\* C5: the amount convert(A, B, amt, c) returns is the amount
\* convert(A, B, amt, 0) returns from the same cache and the same upstream
\* answers, multiplied by (1 + c/100), on every path.
C5_CommissionScaling ==
    last.op = "convert" /\ last.exc = "" =>
        /\ last.free # None
        /\ last.result = RMul(last.free, Rat(100 + last.commission[1], 100))

\* a call with a commission answered from the cache
C5_Witness ==
    /\ last.op = "convert" /\ last.exc = "" /\ last.hit
    /\ last.commission = Num(10)
    /\ ~IsZero(last.result)

\* C6: a convert call in which either name fails to normalize fails with
\* UnknownCurrency before any cache read, cache write or upstream request.
C6_UnknownFailsFirst ==
    last.op = "convert" /\ (Normalize(last.base) = None \/ Normalize(last.quote) = None) =>
        /\ last.exc = "APIException" /\ last.kind = "UnknownCurrency"
        /\ ~last.read
        /\ last.reqs = <<>>
        /\ RATE_CACHE = last.before

\* an unknown quote name, with entries in the cache
C6_Witness ==
    /\ last.op = "convert" /\ last.kind = "UnknownCurrency"
    /\ Normalize(last.base) # None /\ Normalize(last.quote) = None
    /\ DOMAIN last.before # {}

\* C7: on a cache miss with a sound upstream response, convert(A, B, amt, 0)
\* returns amt * baseUsd / quoteUsd for two crypto assets and
\* amt * quoteRate / baseRate otherwise; with BTC = 50000 USD and
\* ETH = 2500 USD, 1 BTC is 20 ETH; with USD = 1.0 and RUB = 90.0, 100 USD is
\* 9000 RUB.
C7_DirectFormulas ==
    last.op = "convert" /\ last.read /\ ~last.hit /\ last.shapes = <<"ok">>
        /\ IsZero(last.commission) =>
        LET m == Markets[last.mk]
            b == last.base_code
            q == last.quote_code
        IN  /\ ~IsZero(last.amount) => last.exc = ""
            /\ last.exc = "" /\ last.route = "crypto_to_crypto" =>
                   last.result = RDiv(RMul(last.amount, m.usd[COINGECKO_IDS[b]]),
                                      m.usd[COINGECKO_IDS[q]])
            /\ last.exc = "" /\ last.route = "fiat_to_fiat" =>
                   last.result = RDiv(RMul(last.amount, m.rates[Upper(q)]),
                                      m.rates[Upper(b)])
            /\ (/\ last.exc = "" /\ b = Lat("btc") /\ q = Lat("eth")
                /\ last.amount = Num(1)
                /\ m.usd.bitcoin = Num(50000) /\ m.usd.ethereum = Num(2500))
               => last.result = Num(20)
            /\ (/\ last.exc = "" /\ b = Lat("usd") /\ q = Lat("rub")
                /\ last.amount = Num(100)
                /\ m.rates[Lat("USD")] = Num(1) /\ m.rates[Lat("RUB")] = Num(90))
               => last.result = Num(9000)

\* 100 USD resolved upstream to 9000 RUB, after 1 BTC was resolved to 20 ETH
C7_Witness ==
    /\ last.op = "convert" /\ last.read /\ ~last.hit /\ last.shapes = <<"ok">>
    /\ last.route = "fiat_to_fiat"
    /\ last.base_code = Lat("usd") /\ last.quote_code = Lat("rub")
    /\ last.amount = Num(100) /\ IsZero(last.commission)
    /\ last.result = Num(9000)
    /\ CacheKey(Lat("btc"), Lat("eth")) \in DOMAIN RATE_CACHE
    /\ RATE_CACHE[CacheKey(Lat("btc"), Lat("eth"))][1] = Num(20)

-----------------------------------------------------------------------------
(* Names outside the vocabulary.                                           *)

\* the keys of currency_map and the lowercased canonical names
KnownForms ==
    {currency_map[i][1] : i \in 1..Len(currency_map)}
    \cup {Lower(CURRENCIES[i][1]) : i \in 1..Len(CURRENCIES)}

-----------------------------------------------------------------------------
(* A failing request while the cache holds the pair.                       *)

\* C12: when an upstream request of a conversion of (A, B) is answered
\* with a non-200 status and the cache holds a rate for (A, B) stored by an
\* earlier call, the conversion returns the amount at that cached rate.
C12_CacheAnswersOnFailure ==
    (/\ last.op = "convert" /\ last.read
     /\ CacheKey(last.base_code, last.quote_code) \in DOMAIN last.before
     /\ \E i \in 1..Len(last.reqs) : last.reqs[i].status # 200)
    => /\ last.exc = ""
       /\ last.result =
            RMul(RMul(last.amount,
                      last.before[CacheKey(last.base_code, last.quote_code)][1]),
                 CommissionFactor(last.commission))

-----------------------------------------------------------------------------
(* The timestamp a conversion returns.                                     *)

\* C13: every conversion of two fiat currencies that returns gives as
\* timestamp the published timestamp of the snapshot its rate was taken
\* from; a conversion with a crypto side gives the wall clock of the requests
\* its rate was taken from (on the bridge the later of the two legs).
C13_RateTimestamp ==
    last.op = "convert" /\ last.exc = "" =>
        LET key == CacheKey(last.base_code, last.quote_code)
            taken == IF last.hit THEN last.before[key][2] ELSE last.at
        IN  IF Route(last.base_code, last.quote_code) = "fiat_to_fiat"
            THEN \E m \in 1..Len(Markets) :
                    /\ ~last.hit => m = last.mk
                    /\ last.ts = taken - Markets[m].age
            ELSE last.ts = taken

-----------------------------------------------------------------------------
(* The routing of a conversion that misses the cache.                      *)

\* the seven tickers classified as crypto
CryptoTickers == {Lat("BTC"), Lat("ETH"), Lat("LTC"), Lat("USDT"), Lat("BNB"),
                  Lat("XRP"), Lat("DOGE")}

\* C14: a conversion of two supported currencies that misses the cache
\* enters one path, by the tickers of the pair: both crypto, one request
\* for the USD prices of both assets; one crypto, a first request for the
\* price of the crypto asset (be it base or quote) in the fiat ticker, the
\* amount multiplied by it for a crypto base and divided by it for a crypto
\* quote; no crypto, one request for the fiat snapshot.  A conversion
\* answered from the cache issues no request.
C14_OnePathByClass ==
    last.op = "convert" /\ last.read =>
        LET b == Upper(last.base_code)
            q == Upper(last.quote_code)
            m == Markets[last.mk]
        IN  /\ last.hit => last.reqs = <<>>
            /\ ~last.hit /\ b \in CryptoTickers /\ q \in CryptoTickers =>
                  /\ Len(last.reqs) = 1
                  /\ last.reqs[1].api = "coingecko"
                  /\ last.reqs[1].query =
                       <<{COINGECKO_IDS[last.base_code], COINGECKO_IDS[last.quote_code]},
                         Lat("usd")>>
            /\ ~last.hit /\ b \in CryptoTickers /\ q \notin CryptoTickers =>
                  /\ Len(last.reqs) \in {1, 2, 3}
                  /\ last.reqs[1].api = "coingecko"
                  /\ last.reqs[1].query = <<{COINGECKO_IDS[last.base_code]}, last.quote_code>>
                  /\ last.exc = "" /\ last.shapes = <<"ok">> =>
                        last.result =
                          RMul(RMul(last.amount,
                                    RMul(m.usd[COINGECKO_IDS[last.base_code]],
                                         m.rates[q])),
                               CommissionFactor(last.commission))
            /\ ~last.hit /\ b \notin CryptoTickers /\ q \in CryptoTickers =>
                  /\ Len(last.reqs) \in {1, 2, 3}
                  /\ last.reqs[1].api = "coingecko"
                  /\ last.reqs[1].query = <<{COINGECKO_IDS[last.quote_code]}, last.base_code>>
                  /\ last.exc = "" /\ last.shapes = <<"ok">> =>
                        last.result =
                          RMul(RDiv(last.amount,
                                    RMul(m.usd[COINGECKO_IDS[last.quote_code]],
                                         m.rates[b])),
                               CommissionFactor(last.commission))
            /\ ~last.hit /\ b \notin CryptoTickers /\ q \notin CryptoTickers =>
                  /\ Len(last.reqs) = 1
                  /\ last.reqs[1].api = "openexchangerates"

\* rubles converted to bitcoin on a miss: the request asks for bitcoin in rub
\* and the amount is divided by the price
C14_Witness ==
    /\ last.op = "convert" /\ last.read /\ ~last.hit
    /\ last.base_code = Lat("rub") /\ last.quote_code = Lat("btc")
    /\ last.reqs = <<[api |-> "coingecko", query |-> <<{"bitcoin"}, Lat("rub")>>,
                      status |-> 200]>>
    /\ last.exc = "" /\ last.amount = Num(100)
    /\ last.result = Rat(1, 45000)

-----------------------------------------------------------------------------
(* When the USD bridge is taken.                                           *)

\* C15: a conversion goes over the USD bridge (issues a second request)
\* only for a pair with one crypto side whose direct-quote request was
\* answered with status 200 and without the quote; every such conversion
\* does go on to the bridge; and a bridge result leaves
\* (result / (amount * (1 + commission/100)), now) in the cache under
\* (base_code, quote_code).
C15_BridgeOnMissingQuote ==
    last.op = "convert" /\ last.read /\ ~last.hit =>
        LET one_crypto == (Upper(last.base_code) \in CryptoTickers)
                            # (Upper(last.quote_code) \in CryptoTickers)
            key == CacheKey(last.base_code, last.quote_code)
        IN  /\ Len(last.reqs) >= 2 =>
                  /\ one_crypto
                  /\ last.reqs[1].api = "coingecko"
                  /\ last.reqs[1].status = 200
                  /\ last.shapes[1] \in {"partial", "empty"}
            /\ one_crypto /\ last.shapes[1] \in {"partial", "empty"} =>
                  Len(last.reqs) >= 2
            /\ Len(last.reqs) >= 2 /\ last.exc = "" =>
                  /\ key \in DOMAIN RATE_CACHE
                  /\ RATE_CACHE[key] =
                       <<RDiv(last.result,
                              RMul(last.amount, CommissionFactor(last.commission))),
                         last.at>>

\* bitcoin to rubles without a direct quote: three requests, a result, and
\* the rate in the cache under btc_rub
C15_Witness ==
    /\ last.op = "convert" /\ ~last.hit /\ last.exc = ""
    /\ last.base_code = Lat("btc") /\ last.quote_code = Lat("rub")
    /\ last.shapes = <<"partial", "ok", "ok">>
    /\ Len(last.reqs) = 3
    /\ CacheKey(Lat("btc"), Lat("rub")) \in DOMAIN RATE_CACHE
    /\ CacheKey(Lat("btc"), Lat("rub")) \notin DOMAIN last.before

-----------------------------------------------------------------------------
(* The amount the USD bridge returns.                                      *)

\* C16: a result of the USD bridge, resolved from sound answers, is
\* amount * (USD value of one unit of base) * (units of quote per USD)
\* * (1 + commission/100), where a crypto asset is worth its USD price and a
\* fiat currency with snapshot rate r is worth 1/r USD, for a crypto base
\* with a fiat quote and for a fiat base with a crypto quote.
C16_BridgeFormula ==
    (/\ last.op = "convert" /\ last.exc = ""
     /\ Len(last.reqs) = 3
     /\ last.shapes[2] = "ok" /\ last.shapes[3] = "ok")
    => LET m == Markets[last.mk]
           base_usd == IF last.base_code \in DOMAIN COINGECKO_IDS
                       THEN m.usd[COINGECKO_IDS[last.base_code]]
                       ELSE RDiv(Num(1), m.rates[Upper(last.base_code)])
           quote_per_usd == IF last.quote_code \in DOMAIN COINGECKO_IDS
                            THEN RDiv(Num(1), m.usd[COINGECKO_IDS[last.quote_code]])
                            ELSE m.rates[Upper(last.quote_code)]
       IN  last.result =
             RMul(RMul(RMul(last.amount, base_usd), quote_per_usd),
                  CommissionFactor(last.commission))

-----------------------------------------------------------------------------
(* Answers with a non-200 status.                                          *)

\* C17: a conversion one of whose requests is answered with a non-200
\* status fails with UpstreamUnavailable, that request is its last, and it
\* leaves the cache as it found it.
C17_Non200Fails ==
    last.op = "convert" =>
        \A i \in 1..Len(last.reqs) :
            last.reqs[i].status # 200 =>
                /\ last.exc = "APIException"
                /\ last.kind = "UpstreamUnavailable"
                /\ i = Len(last.reqs)
                /\ RATE_CACHE = last.before

-----------------------------------------------------------------------------
(* Expressions given to process_complex_expression itself: operators in    *)
(* sequence, parentheses, markers in either case, in several places or     *)
(* absent, and terms that are no amount and no currency.                   *)

EvalExpressions == {
    Lat("2 + 3 * 4 to USD"),
    Lat("(2 + 3) * 4 to USD"),
    Lat("2 + (3 * 4) to USD"),
    Lat("10 - 4 / 2 to EUR"),
    Lat("1 BTC + 50000 USD * 2 ") \o Cyr("v") \o Lat(" RUB"),
    Lat("- 5 + * 3 to USD"),
    Lat("1 USD + 2 EUR to RUB + 5 BTC"),
    Lat("1 USD + 2 EUR"),
    Lat("1 USD + 2 EUR to"),
    Lat("1 USD TO eur ") \o Cyr("V") \o Lat(" rub"),
    Lat("5 ") \o Cyr("Evro") \o Lat(" + 1 USD ") \o Cyr("v") \o Lat(" RUB"),
    Lat("1.2.3 + 1 USD to RUB"),
    Lat("5 $ + 1 USD to RUB"),
    Lat("5 Zorkmid + 1 to USD"),
    Lat("1 USD to Zorkmid"),
    Lat("1 +"),
    Lat("1 USD / 0 USD to RUB")
}

\* a caller invokes CryptoConverter.process_complex_expression(expression)
EvaluateExpression ==
    \E x \in EvalExpressions, mk \in 1..Len(Markets), scripts \in ExprScripts :
        /\ calls < MaxExprCalls
        /\ \E r \in {process_complex_expression(x, RATE_CACHE, now, mk, scripts)} :
              /\ RATE_CACHE' = r.cache
              /\ resolved' = resolved \cup r.resolved
              /\ last' = [NoCall EXCEPT !.op = "expression", !.base = x,
                                        !.at = now, !.exc = r.exc, !.kind = r.kind,
                                        !.cause = r.cause, !.reqs = r.reqs,
                                        !.shapes = r.shapes,
                                        !.mk = IF r.reqs = <<>> THEN 0 ELSE mk,
                                        !.before = RATE_CACHE,
                                        !.total = IF r.exc = "" THEN r.total ELSE None,
                                        !.target = r.target_key,
                                        !.target_currency = r.target,
                                        !.terms = r.terms]
        /\ calls' = calls + 1
        /\ UNCHANGED <<now, ticks, threads, writes, user_states, dicts, handled>>

EvalNext == EvaluateExpression \/ ExprPass

SpecEval == Init /\ [][EvalNext]_vars

-----------------------------------------------------------------------------
(* The order in which an expression is folded.                             *)

\* C18: an evaluation that returns has folded the USD values of its terms
\* left to right in the order of the text, from 0 and with + ahead of the
\* first term, each by the latest operator before it, with no precedence
\* and no grouping: "a + b * c" gives (a + b) * c, with or without
\* parentheses.
C18_LeftToRightFold ==
    last.op = "expression" /\ last.exc = "" =>
        /\ last.total = FoldLeft(last.terms, Len(last.terms))
        /\ Head(last.base) \in Digits \cup {"("} => last.terms[1].op = "+"
        /\ last.base \in {Lat("2 + 3 * 4 to USD"), Lat("(2 + 3) * 4 to USD"),
                          Lat("2 + (3 * 4) to USD")}
              => /\ [k \in 1..3 |-> last.terms[k].value] = <<Num(2), Num(3), Num(4)>>
                 /\ last.total = Num(20)
        /\ last.base = Lat("10 - 4 / 2 to EUR") => last.total = Num(3)
        /\ last.base = Lat("- 5 + * 3 to USD") => last.total = Num(-15)
        /\ last.base = Lat("1 BTC + 50000 USD * 2 ") \o Cyr("v") \o Lat(" RUB")
              => last.total = RMul(RAdd(last.terms[1].value, last.terms[2].value),
                                   last.terms[3].value)

\* "2 + (3 * 4) to USD" gives 20, not 14
C18_Witness ==
    /\ last.op = "expression" /\ last.exc = ""
    /\ last.base = Lat("2 + (3 * 4) to USD")
    /\ Len(last.terms) = 3
    /\ last.total = Num(20)

-----------------------------------------------------------------------------
(* The target marker.                                                      *)

\* the place of the first marker among the tokens, Len(toks) + 1 without one
FirstMarker(toks) ==
    IF \E i \in 1..Len(toks) : Lower(toks[i]) \in {Cyr("v"), Lat("to")}
    THEN CHOOSE i \in 1..Len(toks) :
            /\ Lower(toks[i]) \in {Cyr("v"), Lat("to")}
            /\ \A j \in 1..(i - 1) : Lower(toks[j]) \notin {Cyr("v"), Lat("to")}
    ELSE Len(toks) + 1

\* C19: the first marker token, in either case, ends the scanning: the
\* terms folded are tokens ahead of it, all of them when the evaluation
\* returns; the target is read from the tokens after it joined by spaces,
\* and is USD when there is no marker or nothing after it.
C19_FirstMarkerEndsScan ==
    last.op = "expression" /\ Len(Parts(last.base)) >= 3 =>
        LET toks == Parts(last.base)
            first == FirstMarker(toks)
            ahead == {i \in 1..(first - 1) :
                        toks[i] \notin {<<"+">>, <<"-">>, <<"*">>, <<"/">>}}
            rest == IF first < Len(toks)
                    THEN Join(SubSeq(toks, first + 1, Len(toks))) ELSE None
        IN  /\ Len(last.terms) <= Cardinality(ahead)
            /\ last.exc = "" =>
                  /\ Len(last.terms) = Cardinality(ahead)
                  /\ last.target_currency = rest
                  /\ last.target =
                       normalize_currency_name(IF rest = None THEN Lat("USD") ELSE rest)
            /\ last.exc = "" /\ last.base = Lat("1 USD + 2 EUR to RUB + 5 BTC") =>
                  /\ [k \in 1..Len(last.terms) |-> last.terms[k].code]
                       = <<Lat("usd"), Lat("eur")>>
                  /\ last.target_currency = Lat("RUB + 5 BTC")
                  /\ last.target = Cyr("Rublx")
            /\ last.exc = "" /\ last.base \in {Lat("1 USD + 2 EUR"), Lat("1 USD + 2 EUR to")} =>
                  Len(last.terms) = 2 /\ last.target = Cyr("Dollar")
            /\ last.exc = "" /\ last.base = Lat("1 USD TO eur ") \o Cyr("V") \o Lat(" rub") =>
                  Len(last.terms) = 1 /\ last.target = Cyr("Evro")

\* a term after the first marker: it is not converted, and the target is
\* read from "RUB + 5 BTC"
C19_Witness ==
    /\ last.op = "expression" /\ last.exc = ""
    /\ last.base = Lat("1 USD + 2 EUR to RUB + 5 BTC")
    /\ Len(last.terms) = 2 /\ Len(last.reqs) = 2
    /\ last.target = Cyr("Rublx")

-----------------------------------------------------------------------------
(* The errors of an evaluation.                                            *)

\* C20: an evaluation that fails raises an APIException of a declared
\* kind: ExpressionTooShort, UnparsableTerm, UnknownCurrency,
\* DivisionByZero, or a kind raised by a conversion; a term that is neither
\* an amount followed by letters nor a currency name gives UnparsableTerm.
C20_DeclaredErrorKinds ==
    last.op = "expression" /\ last.exc # "" =>
        /\ last.exc = "APIException"
        /\ last.kind \in {"ExpressionTooShort", "UnparsableTerm", "UnknownCurrency",
                          "DivisionByZero", "UpstreamUnavailable", "ConversionFailed"}
        /\ last.base \in {Lat("1.2.3 + 1 USD to RUB"), Lat("5 $ + 1 USD to RUB")}
              => last.kind = "UnparsableTerm"

-----------------------------------------------------------------------------
(* The failures of a conversion whose names resolved.                      *)

\* C21: a conversion that fails after both names resolved raises an
\* APIException of kind UpstreamUnavailable or ConversionFailed; a failure
\* that is no APIException where it arises (an unparsable body, a division
\* by zero in the resolution or in the rate to cache, as for amount 0 or
\* commission -100) leaves as ConversionFailed naming it.
C21_FailuresAreDeclared ==
    (/\ last.op = "convert" /\ last.exc # ""
     /\ normalize_currency_name(last.base) # None
     /\ normalize_currency_name(last.quote) # None)
    => /\ last.exc = "APIException"
       /\ last.kind \in {"UpstreamUnavailable", "ConversionFailed"}
       /\ last.kind = "ConversionFailed" =>
             last.cause \in {"ValueError", "KeyError", "ZeroDivisionError"}
       /\ (/\ last.shapes = <<"ok">>
           /\ IsZero(RMul(last.amount, CommissionFactor(last.commission))))
          => last.kind = "ConversionFailed" /\ last.cause = "ZeroDivisionError"
       /\ last.shapes = <<"no_json">> =>
             last.kind = "ConversionFailed" /\ last.cause = "ValueError"

\* commission -100 on a miss with a sound answer: the rate to cache divides
\* by zero and the call fails as ConversionFailed
C21_Witness ==
    /\ last.op = "convert" /\ ~last.hit /\ last.shapes = <<"ok">>
    /\ last.commission = Num(-100) /\ last.amount = Num(1)
    /\ last.exc = "APIException" /\ last.kind = "ConversionFailed"
    /\ last.cause = "ZeroDivisionError"

-----------------------------------------------------------------------------
(* What a call may change in the cache.                                    *)

\* C22: no step removes a key from RATE_CACHE; a conversion changes at most
\* the entry of the ordered key of its own pair, every other entry, that of
\* the reversed pair included, stays as it was, and a conversion answered
\* from the cache changes nothing; an evaluation changes at most the
\* entries of its terms to USD and of USD to its target.
C22_CacheFrame ==
    [][/\ DOMAIN RATE_CACHE \subseteq DOMAIN RATE_CACHE'
       /\ calls' # calls /\ last'.op = "convert" =>
             /\ \A k \in DOMAIN RATE_CACHE' :
                    k # CacheKey(last'.base_code, last'.quote_code) =>
                        k \in DOMAIN RATE_CACHE /\ RATE_CACHE'[k] = RATE_CACHE[k]
             /\ last'.hit => RATE_CACHE' = RATE_CACHE
       /\ calls' # calls /\ last'.op = "evaluate" =>
             \A k \in DOMAIN RATE_CACHE' :
                 (k \notin DOMAIN RATE_CACHE \/ RATE_CACHE'[k] # RATE_CACHE[k]) =>
                     \/ \E c \in {Lat("usd"), Lat("eur"), Lat("rub"), Lat("btc")} :
                           k = CacheKey(c, Lat("usd"))
                     \/ last'.target # None
                          /\ k = CacheKey(Lat("usd"), Lower(CodeOf(last'.target)))
      ]_vars

\* rub to usd resolved upstream while the cache holds usd_rub: the entry of
\* usd_rub is as it was, and rub_usd is new
C22_Witness ==
    /\ last.op = "convert" /\ ~last.hit /\ last.exc = ""
    /\ last.base_code = Lat("rub") /\ last.quote_code = Lat("usd")
    /\ CacheKey(Lat("usd"), Lat("rub")) \in DOMAIN last.before
    /\ CacheKey(Lat("rub"), Lat("usd")) \notin DOMAIN last.before
    /\ DOMAIN RATE_CACHE = {CacheKey(Lat("usd"), Lat("rub")),
                            CacheKey(Lat("rub"), Lat("usd"))}
    /\ RATE_CACHE[CacheKey(Lat("usd"), Lat("rub"))]
         = last.before[CacheKey(Lat("usd"), Lat("rub"))]

-----------------------------------------------------------------------------
(* Calls of get_price that run interleaved on the worker threads, all for  *)
(* the pair (usd, rub).  A call reads the cache (lines 55-58), waits for   *)
(* the provider (line 71), and stores the rate (lines 74-76); another      *)
(* thread may run, and the clock advance, between any two of these.  A     *)
(* dict read and a dict store are each one step of the interpreter.        *)
(* `writes` lists the entries the calls stored, in order.                  *)

MaxRaceCalls == 3
MaxRaceTicks == 2

RaceAmounts == {Num(100), Num(0)}

\* lines 55-58: the call starts, reads the cache, and returns on a hit
RaceLookup ==
    \E p \in Threads, amount \in RaceAmounts :
        /\ threads[p].pc \in {"idle", "done"}
        /\ calls < MaxRaceCalls
        /\ \E cached \in {get_cached_rate(RATE_CACHE, now, Lat("usd"), Lat("rub"))} :
              threads' = [threads EXCEPT ![p] =
                  [pc |-> IF cached[1] # None THEN "done" ELSE "resolving",
                   amount |-> amount,
                   seen |-> Get(RATE_CACHE, CacheKey(Lat("usd"), Lat("rub"))),
                   r |-> None,
                   out |-> IF cached[1] # None
                           THEN CachedAnswer(amount, Num(0), cached) ELSE None]]
        /\ calls' = calls + 1
        /\ UNCHANGED <<RATE_CACHE, now, last, ticks, resolved, writes, user_states, dicts, handled>>

\* lines 62-71: the provider answers
RaceResolve ==
    \E p \in Threads, mk \in 1..Len(Markets), shape \in {"ok", "http_err"} :
        /\ threads[p].pc = "resolving"
        /\ threads' = [threads EXCEPT ![p].pc = "resolved",
                                      ![p].r = Resolve(Lat("usd"), Lat("rub"),
                                                       threads[p].amount, Num(0), mk,
                                                       now, <<shape, "ok", "ok">>)]
        /\ UNCHANGED <<RATE_CACHE, now, last, calls, ticks, resolved, writes,
                       user_states, dicts, handled>>

\* lines 73-81: the rate is stored and the call returns, or the call raises
RaceStore ==
    \E p \in Threads :
        /\ threads[p].pc = "resolved"
        /\ \E fin \in {Finish(RATE_CACHE, now, Lat("usd"), Lat("rub"),
                               threads[p].amount, Num(0), threads[p].r)} :
              /\ RATE_CACHE' = fin.cache
              /\ threads' = [threads EXCEPT ![p].pc = "done", ![p].out = fin.out]
              /\ writes' = IF fin.out.exc = ""
                            THEN Append(writes,
                                        [by |-> p,
                                         entry |-> <<RDiv(threads[p].r.result,
                                                          threads[p].amount), now>>])
                            ELSE writes
        /\ UNCHANGED <<now, last, calls, ticks, resolved, user_states, dicts, handled>>

\* a second passes
RacePass ==
    /\ ticks < MaxRaceTicks
    /\ now' = now + 1
    /\ ticks' = ticks + 1
    /\ UNCHANGED <<RATE_CACHE, last, calls, resolved, threads, writes, user_states, dicts, handled>>

RaceNext == RaceLookup \/ RaceResolve \/ RaceStore \/ RacePass

SpecRace == Init /\ [][RaceNext]_vars

\* C23: when calls for one pair run interleaved, what a call reads from the
\* cache is no entry or an entry one call stored, whole; and when no call
\* is under way the entry of the pair is the one stored last.
C23_LastWriterWins ==
    LET key == CacheKey(Lat("usd"), Lat("rub"))
        stored == {writes[i].entry : i \in 1..Len(writes)}
    IN  /\ \A p \in Threads : threads[p].seen \in {None} \cup stored
        /\ key \in DOMAIN RATE_CACHE => RATE_CACHE[key] \in stored
        /\ (\A p \in Threads : threads[p].pc \in {"idle", "done"}) =>
              IF writes = <<>> THEN key \notin DOMAIN RATE_CACHE
              ELSE /\ key \in DOMAIN RATE_CACHE
                   /\ RATE_CACHE[key] = writes[Len(writes)].entry

\* both calls missed the cache and resolved upstream at different rates; the
\* entry is that of the call that stored second
C23_Witness ==
    /\ \A p \in Threads : threads[p].pc = "done" /\ threads[p].seen = None
                               /\ threads[p].out.exc = ""
    /\ Len(writes) = 2
    /\ writes[1].by # writes[2].by
    /\ writes[1].entry[1] # writes[2].entry[1]
    /\ RATE_CACHE[CacheKey(Lat("usd"), Lat("rub"))] = writes[2].entry

-----------------------------------------------------------------------------
(* The cached answer against the resolved one.                             *)

\* C24: a conversion answered from the cache returns what the same
\* conversion, resolved upstream at the rate the cache holds, returns: the
\* uncached conversion does not fail, and gives the same amount.
C24_CacheTransparent ==
    last.op = "convert" /\ last.hit =>
        \A mk \in 1..Len(Markets) :
            LET unit == get_price(<<>>, last.at, last.base, last.quote, Num(1),
                                  Num(0), mk, OkScript)
                uncached == get_price(<<>>, last.at, last.base, last.quote,
                                      last.amount, last.commission, mk, OkScript)
            IN  (/\ unit.exc = ""
                 /\ unit.result
                      = last.before[CacheKey(last.base_code, last.quote_code)][1])
                => /\ uncached.exc = ""
                   /\ uncached.result = last.result

-----------------------------------------------------------------------------
(* main.py: the guided dialogue of /convert.  The bot is                   *)
(* telebot.TeleBot(Config.TOKEN), which tests the filters of the handlers  *)
(* in the order of their registration as the updates arrive and runs the   *)
(* handler chosen on one of its worker threads; a handler is split where   *)
(* it reads or writes user_states and where it waits for the network.      *)

MaxUpdates == 5

Chats == {1}

\* the buttons of the inline keyboards: names of Config.CURRENCIES
ChatButtons == {Cyr("Dollar"), Cyr("Rublx")}

\* the texts a chat sends
ChatTexts == {Lat("100"), Lat("abc")}

ChatUpdates ==
    {[kind |-> "command", data |-> Lat("/convert")]}
      \cup {[kind |-> "callback", data |-> b] : b \in ChatButtons}
      \cup {[kind |-> "text", data |-> t] : t \in ChatTexts}

\* {'step': 1, 'base': None, 'quote': None}
NewSession == [step |-> 1, base |-> None, quote |-> None, keys |-> TRUE]

\* {}: a dict without a step has step 0 here
EmptyDict == [step |-> 0, base |-> None, quote |-> None, keys |-> FALSE]

\* user_states.get(chat_id, {})
SessionOf(chat_id) ==
    IF chat_id \in DOMAIN user_states THEN dicts[user_states[chat_id]]
    ELSE EmptyDict

\* user_states[chat_id] = state
SetSession(chat_id, state) ==
    [c \in DOMAIN user_states \cup {chat_id} |->
        IF c = chat_id THEN state ELSE user_states[c]]

\* the handler an update goes to: the first registered whose filter passes
HandlerOf(chat_id, update) ==
    IF update.kind = "command" THEN "convert_command"
    ELSE IF update.kind = "callback" THEN "callback_handler"
    ELSE IF SessionOf(chat_id).step = 3 THEN "amount_handler"
    ELSE "text_converter"

\* an update arrives and its handler is handed to a free worker thread
Dispatch ==
    \E p \in Threads, chat_id \in Chats, update \in ChatUpdates :
        /\ calls < MaxUpdates
        /\ threads[p].pc = "idle"
        /\ threads' = [threads EXCEPT ![p] =
              [pc |-> HandlerOf(chat_id, update), chat |-> chat_id,
               data |-> update.data, state |-> 0, step |-> 0,
               base_key |-> None, quote_key |-> None]]
        /\ calls' = calls + 1
        /\ UNCHANGED <<RATE_CACHE, now, last, ticks, resolved, writes, user_states,
                       dicts, handled>>

\* /convert without parameters: a new session at step 1
convert_command ==
    \E p \in Threads :
        /\ threads[p].pc = "convert_command"
        /\ dicts' = Append(dicts, NewSession)
        /\ user_states' = SetSession(threads[p].chat, Len(dicts) + 1)
        /\ threads' = [threads EXCEPT ![p] = NoThread]
        /\ UNCHANGED <<RATE_CACHE, now, last, calls, ticks, resolved, writes,
                       handled>>

\* line 107: state = user_states.get(chat_id, {})
CallbackRead ==
    \E p \in Threads :
        /\ threads[p].pc = "callback_handler"
        /\ IF threads[p].chat \in DOMAIN user_states
           THEN /\ threads' = [threads EXCEPT ![p].pc = "callback_branch",
                                              ![p].state = user_states[threads[p].chat]]
                /\ dicts' = dicts
           ELSE /\ threads' = [threads EXCEPT ![p].pc = "callback_branch",
                                              ![p].state = Len(dicts) + 1]
                /\ dicts' = Append(dicts, EmptyDict)
        /\ UNCHANGED <<RATE_CACHE, now, last, calls, ticks, resolved, writes,
                       user_states, handled>>

\* lines 109-128: the choice is written into the dict and the step advanced
CallbackBranch ==
    \E p \in Threads :
        /\ threads[p].pc = "callback_branch"
        /\ dicts' = [dicts EXCEPT ![threads[p].state] =
              IF @.step = 1
              THEN [@ EXCEPT !.base = threads[p].data, !.step = 2]
              ELSE IF @.step = 2
              THEN [@ EXCEPT !.quote = threads[p].data, !.step = 3]
              ELSE @]
        /\ threads' = [threads EXCEPT ![p].pc = "callback_store"]
        /\ UNCHANGED <<RATE_CACHE, now, last, calls, ticks, resolved, writes,
                       user_states, handled>>

\* line 130: user_states[chat_id] = state
CallbackStore ==
    \E p \in Threads :
        /\ threads[p].pc = "callback_store"
        /\ user_states' = SetSession(threads[p].chat, threads[p].state)
        /\ threads' = [threads EXCEPT ![p] = NoThread]
        /\ UNCHANGED <<RATE_CACHE, now, last, calls, ticks, resolved, writes,
                       dicts, handled>>

\* lines 136-144: the session is read; an empty one ends the handler
AmountRead ==
    \E p \in Threads :
        /\ threads[p].pc = "amount_handler"
        /\ \E state \in {SessionOf(threads[p].chat)} :
              threads' = [threads EXCEPT ![p] =
                  IF ~state.keys THEN NoThread
                  ELSE [@ EXCEPT !.pc = "amount_convert",
                                 !.state = user_states[threads[p].chat],
                                 !.step = state.step,
                                 !.base_key = state.base,
                                 !.quote_key = state.quote]]
        /\ UNCHANGED <<RATE_CACHE, now, last, calls, ticks, resolved, writes,
                       user_states, dicts, handled>>

\* float(amount_str) for the texts a chat sends
IsNumber(text) ==
    /\ \A i \in 1..Len(text) : text[i] \in Digits \cup {"."}
    /\ float(text) # <<"ValueError">>

\* lines 148-180: the amount is parsed, get_price called and the reply sent;
\* the finally clause deletes the chat's session
AmountConvert ==
    \E p \in Threads, mk \in 1..Len(Markets), shape \in {"ok", "http_err"} :
        /\ threads[p].pc = "amount_convert"
        /\ \E amount_str \in {Strip(threads[p].data)} :
           \E r \in {IF IsNumber(amount_str)
                     THEN get_price(RATE_CACHE, now, threads[p].base_key,
                                    threads[p].quote_key, float(amount_str), Num(0),
                                    mk, <<shape, "ok", "ok">>)
                     ELSE Report(Raised("ValueError", "", "", <<>>), None, None,
                                 FALSE, FALSE, "", RATE_CACHE)} :
              /\ RATE_CACHE' = r.cache
              /\ last' = [op |-> "amount_handler", chat |-> threads[p].chat,
                          state |-> threads[p].state, step |-> threads[p].step,
                          base |-> threads[p].base_key,
                          quote |-> threads[p].quote_key, text |-> amount_str,
                          exc |-> r.exc, kind |-> r.kind, result |-> r.result]
        /\ user_states' = [c \in DOMAIN user_states \ {threads[p].chat} |->
                              user_states[c]]
        /\ handled' = handled \cup {threads[p].state}
        /\ threads' = [threads EXCEPT ![p] = NoThread]
        /\ UNCHANGED <<now, calls, ticks, resolved, writes, dicts>>

\* a text of one word outside step 3: process_text_conversion answers that
\* parameters are missing
TextConverter ==
    \E p \in Threads :
        /\ threads[p].pc = "text_converter"
        /\ threads' = [threads EXCEPT ![p] = NoThread]
        /\ UNCHANGED <<RATE_CACHE, now, last, calls, ticks, resolved, writes,
                       user_states, dicts, handled>>

ChatNext ==
    \/ Dispatch
    \/ convert_command
    \/ CallbackRead
    \/ CallbackBranch
    \/ CallbackStore
    \/ AmountRead
    \/ AmountConvert
    \/ TextConverter

SpecChat == Init /\ [][ChatNext]_vars

\* C25: in the guided dialogue a conversion is made from a session only at
\* step 3 with its base and its quote chosen, and once the amount message
\* of a session has been handled that session is no chat's session any
\* more, so that no later text is taken as an amount for it.
C25_GuidedFlow ==
    /\ last.op = "amount_handler" =>
          /\ last.step = 3
          /\ last.base \in ChatButtons
          /\ last.quote \in ChatButtons
    /\ \A c \in DOMAIN user_states : user_states[c] \notin handled

-----------------------------------------------------------------------------
(* What normalize_currency_name returns is a key of Config.CURRENCIES.     *)

\* C26: every value normalize_currency_name can return -- a value of
\* currency_map, found by the exact or the substring step, or a name of
\* Config.CURRENCIES found by the last step -- is a key of Config.CURRENCIES,
\* so that Config.CURRENCIES[base_key] in get_price raises no KeyError for a
\* name that was normalized.
C26_NormalizedIsKey ==
    /\ \A i \in 1..Len(currency_map) : currency_map[i][2] \in CanonicalNames
    /\ (last.op = "normalize" /\ last.result # None) =>
          /\ last.result \in CanonicalNames
          /\ CodeOf(last.result) # <<"KeyError">>
          /\ get_price(<<>>, now, last.base, last.base, Num(1), Num(0), 1,
                       OkScript).base_code = Lower(CodeOf(last.result))

\* a name found by the substring step: Eurovision holds the key eur
C26_Witness ==
    /\ last.op = "normalize" /\ last.base = Lat("Eurovision")
    /\ ExactMatch(Lower(Strip(last.base))) = None
    /\ last.result = Cyr("Evro")
    /\ CodeOf(last.result) = Lat("EUR")

=============================================================================
